---- MODULE Spec2Model ----
(***************************************************************************)
(* Smart Wound-Care Concierge: the status classifier of src/decision.py,   *)
(* the image analysis of src/perception.py, the rationale of src/llm.py    *)
(* and the Upload page of src/app.py with the storage of src/action.py.    *)
(*                                                                         *)
(* Specifications.  Spec: one call of decide_status.  SpecImage: one call  *)
(* of analyze_image, statement group by statement group.  SpecPixel: the   *)
(* mask condition on single pixels.  SpecConcurrent: two threads calling   *)
(* both functions.  SpecRationale: one call of generate_llm_rationale.     *)
(* SpecSession: reruns of the Upload page, the "Analyze Wound" handler     *)
(* run as a whole, in browser sessions sharing the records table.          *)
(*                                                                         *)
(* Numbers.  Python floats are modelled as fixed-point integers counting   *)
(* thousandths (Milli units): 0.08 is 80, 150.0 is 150000.  delta_pct is   *)
(* the one computed quotient; it is kept as an exact reduced fraction      *)
(* [num, den] and compared with the thresholds by cross-multiplication.    *)
(* IEEE division is correctly rounded and monotonic and the thresholds     *)
(* 15, 5 and -5 are reached through the doubles 0.15, 0.05 and -0.05,      *)
(* whose products with 100.0 round to exactly 15.0, 5.0 and -5.0, so the   *)
(* float comparisons of the source agree with the exact ones used here.    *)
(*                                                                         *)
(* Dictionaries.  A Python dict is a function whose DOMAIN is its key set; *)
(* a missing key is a key outside the DOMAIN and {} is the function with   *)
(* the empty DOMAIN.  A value is a tagged record: a number, None or a      *)
(* string (a sequence of characters).                                      *)
(***************************************************************************)
EXTENDS Integers, Sequences, FiniteSets, TLC

VARIABLES curr_metrics, prev_metrics, pc, exception, decision, frame, threads,
          session_state, records, analyze, llm_call

vars == <<curr_metrics, prev_metrics, pc, exception, decision, frame, threads,
          session_state, records, analyze, llm_call>>

\* the state of the Streamlit application: st.session_state, the rows of the
\* records table, the last run of the Analyze handler, and a direct call of
\* generate_llm_rationale
appVars == <<session_state, records, analyze, llm_call>>

(* ---------------------------------------------------------------------- *)
(* Number representation                                                   *)
(* ---------------------------------------------------------------------- *)

Milli == 10 * 10 * 10

Abs(n) == IF n < 0 THEN -n ELSE n

RECURSIVE GCD(_, _)
GCD(a, b) == IF b = 0 THEN a ELSE GCD(b, a % b)

\* the exact quotient n / d (d > 0) in lowest terms
Frac(n, d) == LET g == GCD(Abs(n), d) IN [num |-> n \div g, den |-> d \div g]

\* comparisons of a fraction with an integer threshold
FracGT(f, t) == f.num > t * f.den
FracLT(f, t) == f.num < t * f.den
FracLE(f, t) == f.num <= t * f.den
FracGE(f, t) == f.num >= t * f.den

(* ---------------------------------------------------------------------- *)
(* Python values, dicts and float()                                        *)
(* ---------------------------------------------------------------------- *)

Num(m) == [kind |-> "num", num |-> m, str |-> <<>>]
PyNone == [kind |-> "none", num |-> 0, str |-> <<>>]
Str(s) == [kind |-> "str", num |-> 0, str |-> s]

Digits == {"0", "1", "2", "3", "4", "5", "6", "7", "8", "9"}

DigitValue(c) ==
    CASE c = "0" -> 0 [] c = "1" -> 1 [] c = "2" -> 2 [] c = "3" -> 3
      [] c = "4" -> 4 [] c = "5" -> 5 [] c = "6" -> 6 [] c = "7" -> 7
      [] c = "8" -> 8 [] c = "9" -> 9

RECURSIVE ParseDigits(_)
ParseDigits(s) ==
    IF s = <<>> THEN 0
    ELSE 10 * ParseDigits(SubSeq(s, 1, Len(s) - 1)) + DigitValue(s[Len(s)])

IsNumeral(s) == Len(s) > 0 /\ \A i \in 1..Len(s) : s[i] \in Digits

Ok(m) == [raised |-> FALSE, exc |-> "", val |-> m]
Raise(e) == [raised |-> TRUE, exc |-> e, val |-> 0]

\* float(x): a number converts to itself, None raises TypeError, a string is
\* parsed (only unsigned digit strings among the strings drawn here are
\* numerals) and raises ValueError when it is no numeral.
Float(v) ==
    CASE v.kind = "num" -> Ok(v.num)
      [] v.kind = "none" -> Raise("TypeError")
      [] v.kind = "str" ->
            IF IsNumeral(v.str) THEN Ok(ParseDigits(v.str) * Milli)
            ELSE Raise("ValueError")

\* dict.get(key, default)
Get(d, key, default) == IF key \in DOMAIN d THEN d[key] ELSE Num(default)

\* the truth value of an Optional[Dict]: None and {} are falsy
Truthy(p) == ~p.isNone /\ DOMAIN p.dict # {}

Max(a, b) == IF a >= b THEN a ELSE b

\* round n / d (d > 0) to the nearest integer, ties to even
RoundHalfEven(n, d) ==
    LET q == n \div d
        r == n % d
    IN  IF 2 * r < d THEN q
        ELSE IF 2 * r > d THEN q + 1
        ELSE IF q % 2 = 0 THEN q ELSE q + 1

\* f"{x:.1f}" and f"{x:.3f}" of a fixed-point number: the digits printed,
\* as a count of tenths and of thousandths
Format1(m) == RoundHalfEven(m, Milli \div 10)
Format3(m) == m
\* f"{delta:.1f}" of the fraction delta, as a count of tenths
FormatFrac1(f) == RoundHalfEven(f.num * 10, f.den)

(* ---------------------------------------------------------------------- *)
(* src/decision.py: thresholds                                             *)
(* ---------------------------------------------------------------------- *)

REDNESS_URGENT == 150 * Milli
REDNESS_CONCERNING == 120 * Milli
DELTA_URGENT == 15
DELTA_CONCERNING == 5
\* 0.08 and 0.03
EXUDATE_HIGH == (8 * Milli) \div 100
EXUDATE_MED == (3 * Milli) \div 100

(* ---------------------------------------------------------------------- *)
(* src/decision.py: compute_delta_pct                                      *)
(* ---------------------------------------------------------------------- *)

ZeroFrac == Frac(0, 1)

\* a variant that returns the ratio, without the "* 100.0"
compute_delta_ratio(curr, prev) ==
    IF ~Truthy(prev) THEN Ok(ZeroFrac)
    ELSE LET pa == Float(Get(prev.dict, "area", 0))
         IN  IF pa.raised THEN Raise(pa.exc)
             ELSE LET prev_area == Max(1 * Milli, pa.val)
                      ca == Float(Get(curr, "area", 0))
                  IN  IF ca.raised THEN Raise(ca.exc)
                      ELSE Ok(Frac(ca.val - prev_area, prev_area))

\* a variant that tests "prev_metrics is None" where the source tests
\* "not prev_metrics", so that {} is taken for a previous MetricSet
compute_delta_pct_is_none(curr, prev) ==
    IF prev.isNone THEN Ok(ZeroFrac)
    ELSE LET pa == Float(Get(prev.dict, "area", 0))
         IN  IF pa.raised THEN Raise(pa.exc)
             ELSE LET prev_area == Max(1 * Milli, pa.val)
                      ca == Float(Get(curr, "area", 0))
                  IN  IF ca.raised THEN Raise(ca.exc)
                      ELSE Ok(Frac((ca.val - prev_area) * 100, prev_area))

\* float(curr_metrics.get("area", 0)) is evaluated after prev_area and only
\* when prev_metrics is truthy
compute_delta_pct(curr, prev) ==
    IF ~Truthy(prev) THEN Ok(ZeroFrac)
    ELSE LET pa == Float(Get(prev.dict, "area", 0))
         IN  IF pa.raised THEN Raise(pa.exc)
             ELSE LET prev_area == Max(1 * Milli, pa.val)
                      ca == Float(Get(curr, "area", 0))
                  IN  IF ca.raised THEN Raise(ca.exc)
                      ELSE Ok(Frac((ca.val - prev_area) * 100, prev_area))

(* ---------------------------------------------------------------------- *)
(* src/decision.py: decide_status, the rule chain                          *)
(* ---------------------------------------------------------------------- *)

Tag(name, vals) == [name |-> name, vals |-> vals]

\* a running state of the chain: the status variable and the reason list
Running(status, reason) == [status |-> status, reason |-> reason]

\* a variant that needs both a blurry and a dark image ("and" for "or")
QualityBoth(blur_var, brightness) ==
    IF blur_var < 60 * Milli /\ brightness < 30 * Milli THEN "poor" ELSE "ok"

\* image quality check
Quality(blur_var, brightness) ==
    IF blur_var < 60 * Milli \/ brightness < 30 * Milli THEN "poor" ELSE "ok"

QualityReason(blur_var, brightness) ==
    IF Quality(blur_var, brightness) = "poor"
    THEN <<Tag("image_quality", <<Format1(blur_var), Format1(brightness)>>)>>
    ELSE <<>>

\* a variant with strict thresholds, as the comments on the constants read
\* (">8%", ">3%")
ExudateRuleStrict(s, exud) ==
    IF exud > EXUDATE_HIGH
    THEN Running("Urgent", Append(s.reason, Tag("high_exudate", <<Format3(exud)>>)))
    ELSE IF exud > EXUDATE_MED /\ s.status # "Urgent"
    THEN Running("Concerning", Append(s.reason, Tag("moderate_exudate", <<Format3(exud)>>)))
    ELSE s

\* exudate influences severity
ExudateRule(s, exud) ==
    IF exud >= EXUDATE_HIGH
    THEN Running("Urgent", Append(s.reason, Tag("high_exudate", <<Format3(exud)>>)))
    ELSE IF exud >= EXUDATE_MED /\ s.status # "Urgent"
    THEN Running("Concerning", Append(s.reason, Tag("moderate_exudate", <<Format3(exud)>>)))
    ELSE s

\* a variant whose last branch is guarded like the second: a shrinking area
\* does not reset an Urgent status
DeltaRuleKeepsUrgent(s, delta) ==
    IF FracGT(delta, DELTA_URGENT)
    THEN Running("Urgent", Append(s.reason, Tag("area_increase_pct", <<FormatFrac1(delta)>>)))
    ELSE IF FracGT(delta, DELTA_CONCERNING) /\ FracLE(delta, DELTA_URGENT)
            /\ s.status \notin {"Urgent"}
    THEN Running("Concerning", Append(s.reason, Tag("area_increase_pct", <<FormatFrac1(delta)>>)))
    ELSE IF FracGE(delta, -5) /\ FracLE(delta, DELTA_CONCERNING)
    THEN Running(IF s.status = "Monitor" THEN "Monitor" ELSE s.status,
                 Append(s.reason, Tag("area_change_pct", <<FormatFrac1(delta)>>)))
    ELSE IF FracLT(delta, -5) /\ s.status \notin {"Urgent"}
    THEN Running("Stable", Append(s.reason, Tag("area_decrease_pct", <<FormatFrac1(delta)>>)))
    ELSE s

\* a variant whose no-change branch appends no tag
DeltaRuleSilentNoChange(s, delta) ==
    IF FracGT(delta, DELTA_URGENT)
    THEN Running("Urgent", Append(s.reason, Tag("area_increase_pct", <<FormatFrac1(delta)>>)))
    ELSE IF FracGT(delta, DELTA_CONCERNING) /\ FracLE(delta, DELTA_URGENT)
            /\ s.status \notin {"Urgent"}
    THEN Running("Concerning", Append(s.reason, Tag("area_increase_pct", <<FormatFrac1(delta)>>)))
    ELSE IF FracGE(delta, -5) /\ FracLE(delta, DELTA_CONCERNING)
    THEN s
    ELSE IF FracLT(delta, -5)
    THEN Running("Stable", Append(s.reason, Tag("area_decrease_pct", <<FormatFrac1(delta)>>)))
    ELSE s

\* delta-based rules
DeltaRule(s, delta) ==
    IF FracGT(delta, DELTA_URGENT)
    THEN Running("Urgent", Append(s.reason, Tag("area_increase_pct", <<FormatFrac1(delta)>>)))
    ELSE IF FracGT(delta, DELTA_CONCERNING) /\ FracLE(delta, DELTA_URGENT)
            /\ s.status \notin {"Urgent"}
    THEN Running("Concerning", Append(s.reason, Tag("area_increase_pct", <<FormatFrac1(delta)>>)))
    ELSE IF FracGE(delta, -5) /\ FracLE(delta, DELTA_CONCERNING)
    THEN Running(IF s.status = "Monitor" THEN "Monitor" ELSE s.status,
                 Append(s.reason, Tag("area_change_pct", <<FormatFrac1(delta)>>)))
    ELSE IF FracLT(delta, -5)
    THEN Running("Stable", Append(s.reason, Tag("area_decrease_pct", <<FormatFrac1(delta)>>)))
    ELSE s

\* a variant whose second branch is unguarded: a redness between the two
\* thresholds lowers an Urgent status to Concerning
RednessRuleOverwrites(s, redness) ==
    IF redness > REDNESS_URGENT
    THEN Running("Urgent", Append(s.reason, Tag("redness", <<Format1(redness)>>)))
    ELSE IF redness > REDNESS_CONCERNING
    THEN Running("Concerning", Append(s.reason, Tag("redness", <<Format1(redness)>>)))
    ELSE s

\* redness overrides
RednessRule(s, redness) ==
    IF redness > REDNESS_URGENT
    THEN Running("Urgent", Append(s.reason, Tag("redness", <<Format1(redness)>>)))
    ELSE IF redness > REDNESS_CONCERNING /\ s.status \notin {"Urgent"}
    THEN Running("Concerning", Append(s.reason, Tag("redness", <<Format1(redness)>>)))
    ELSE s

\* a variant with the conditional inverted
ExplanationInverted(reason) ==
    IF reason = <<>> THEN reason ELSE <<Tag("heuristic_default", <<>>)>>

\* "; ".join(reason) if reason else "heuristic_default"
Explanation(reason) ==
    IF reason # <<>> THEN reason ELSE <<Tag("heuristic_default", <<>>)>>

\* a variant that applies the redness rule before the delta rule
ClassifyRednessBeforeDelta(delta, redness, exud, blur_var, brightness) ==
    LET s0 == Running("Monitor", QualityReason(blur_var, brightness))
        s1 == ExudateRule(s0, exud)
        s2 == RednessRule(s1, redness)
        s3 == DeltaRule(s2, delta)
    IN  [status |-> s3.status,
         delta_pct |-> delta,
         quality |-> Quality(blur_var, brightness),
         explanation |-> Explanation(s3.reason)]

\* a variant in which a poor image never yields more than Monitor
ClassifyPoorImageMonitor(delta, redness, exud, blur_var, brightness) ==
    LET s0 == Running("Monitor", QualityReason(blur_var, brightness))
        s1 == ExudateRule(s0, exud)
        s2 == DeltaRule(s1, delta)
        s3 == RednessRule(s2, redness)
    IN  [status |-> IF Quality(blur_var, brightness) = "poor"
                    THEN "Monitor" ELSE s3.status,
         delta_pct |-> delta,
         quality |-> Quality(blur_var, brightness),
         explanation |-> Explanation(s3.reason)]

\* the rules applied to the converted fields, and the dict returned
Classify(delta, redness, exud, blur_var, brightness) ==
    LET s0 == Running("Monitor", QualityReason(blur_var, brightness))
        s1 == ExudateRule(s0, exud)
        s2 == DeltaRule(s1, delta)
        s3 == RednessRule(s2, redness)
    IN  [status |-> s3.status,
         delta_pct |-> delta,
         quality |-> Quality(blur_var, brightness),
         explanation |-> Explanation(s3.reason)]

\* the conversions run in source order; the first one to raise ends the call
decide_status(curr, prev) ==
    LET delta == compute_delta_pct(curr, prev)
        redness == Float(Get(curr, "redness", 0))
        exud == Float(Get(curr, "exudate_ratio", 0))
        blur_var == Float(Get(curr, "blur_var", 0))
        brightness == Float(Get(curr, "brightness", 0))
    IN  IF delta.raised THEN Raise(delta.exc)
        ELSE IF redness.raised THEN Raise(redness.exc)
        ELSE IF exud.raised THEN Raise(exud.exc)
        ELSE IF blur_var.raised THEN Raise(blur_var.exc)
        ELSE IF brightness.raised THEN Raise(brightness.exc)
        ELSE Ok(Classify(delta.val, redness.val, exud.val, blur_var.val, brightness.val))

(* ---------------------------------------------------------------------- *)
(* The inputs drawn: MetricSets around every threshold, and malformed ones *)
(* ---------------------------------------------------------------------- *)

\* area counts 0..MaxArea are drawn, besides the named samples
MaxArea == 24

\* a key left out of the dict being built
Absent == [kind |-> "absent", num |-> 0, str |-> <<>>]

MkDict(opts) ==
    [k \in {f \in DOMAIN opts : opts[f].kind # "absent"} |-> opts[k]]

BadString == Str(<<"a", "b", "c">>)
NumeralString == Str(<<"2", "0">>)

AreaValues ==
    {Num(a * Milli) : a \in 0..MaxArea} \cup {Num(100 * Milli), Num(120 * Milli)}
        \cup {Absent, PyNone, BadString, NumeralString}

RednessValues ==
    {Num(50 * Milli), Num(120 * Milli), Num(120 * Milli + 1), Num(150 * Milli),
     Num(150 * Milli + 1), Num(160 * Milli), Absent, PyNone}

ExudateValues ==
    {Num(0), Num(29), Num(30), Num(79), Num(80), Num(90), Absent, BadString}

BlurValues == {Num(60 * Milli - 1), Num(60 * Milli), Absent, PyNone}

BrightnessValues == {Num(30 * Milli - 1), Num(30 * Milli), Absent, BadString}

PrevAreaValues ==
    {Num(0), Num(Milli \div 2), Num(20 * Milli), Num(100 * Milli),
     Absent, PyNone, BadString}

CurrMetricSets ==
    {MkDict([area |-> a, redness |-> r, exudate_ratio |-> e, blur_var |-> b,
             brightness |-> br]) :
        a \in AreaValues, r \in RednessValues, e \in ExudateValues,
        b \in BlurValues, br \in BrightnessValues}

\* Optional[Dict]: None, or a dict
NoneDict == [isNone |-> TRUE, dict |-> MkDict([area |-> Absent])]
SomeDict(d) == [isNone |-> FALSE, dict |-> d]

\* the previous MetricSet: None, {} (no key), or a dict with or without area
PrevMetricSets ==
    {NoneDict} \cup
    {SomeDict(MkDict([area |-> a, redness |-> r])) :
        a \in PrevAreaValues, r \in {Absent, Num(50 * Milli)}}

(* ---------------------------------------------------------------------- *)
(* src/perception.py: the resize arithmetic, in IEEE double precision      *)
(*                                                                         *)
(* scale = target_size / max_dim is the correctly rounded quotient: a      *)
(* 53-bit significand q0.d1 d2 d3 d4 (q0 the leading bit, four digits of   *)
(* 13 bits) times 2^-a.  w * scale is the correctly rounded product and    *)
(* int() drops its fraction.  Every intermediate stays below 2^31.         *)
(* ---------------------------------------------------------------------- *)

RECURSIVE Pow2(_)
Pow2(n) == IF n = 0 THEN 1 ELSE 2 * Pow2(n - 1)

RECURSIVE BitLen(_)
BitLen(n) == IF n = 0 THEN 0 ELSE 1 + BitLen(n \div 2)

Digit13 == Pow2(13)

\* the least a >= 0 with t * 2^a >= m
RECURSIVE NormShift(_, _)
NormShift(t, m) == IF t >= m THEN 0 ELSE 1 + NormShift(2 * t, m)

\* scale = target_size / max_dim, for 0 < target_size < max_dim
Scale(target_size, max_dim) ==
    LET a == NormShift(target_size, max_dim)
        r0 == target_size * Pow2(a) - max_dim
        d1 == (r0 * Digit13) \div max_dim
        r1 == (r0 * Digit13) % max_dim
        d2 == (r1 * Digit13) \div max_dim
        r2 == (r1 * Digit13) % max_dim
        d3 == (r2 * Digit13) \div max_dim
        r3 == (r2 * Digit13) % max_dim
        d4 == (r3 * Digit13) \div max_dim
        r4 == (r3 * Digit13) % max_dim
        guard == 2 * r4 >= max_dim
        sticky == (IF guard THEN 2 * r4 - max_dim ELSE 2 * r4) # 0
        up == guard /\ (sticky \/ d4 % 2 = 1)
        e4 == IF up THEN d4 + 1 ELSE d4
        e3 == d3 + e4 \div Digit13
        e2 == d2 + e3 \div Digit13
        e1 == d1 + e2 \div Digit13
    IN  [a |-> a,
         q0 |-> 1 + e1 \div Digit13,
         d1 |-> e1 % Digit13,
         d2 |-> e2 % Digit13,
         d3 |-> e3 % Digit13,
         d4 |-> e4 % Digit13]

\* int(w * scale)
IntTimesScale(w, scale) ==
    LET t4 == w * scale.d4
        t3 == w * scale.d3 + t4 \div Digit13
        t2 == w * scale.d2 + t3 \div Digit13
        t1 == w * scale.d1 + t2 \div Digit13
        c0 == w * scale.q0 + t1 \div Digit13
        l1 == t1 % Digit13
        l2 == t2 % Digit13
        l3 == t3 % Digit13
        l4 == t4 % Digit13
        shift == BitLen(c0) - 1
        dropped == l4 % Pow2(shift)
        kept4 == l4 \div Pow2(shift)
        up == /\ shift > 0
              /\ \/ 2 * dropped > Pow2(shift)
                 \/ (2 * dropped = Pow2(shift) /\ kept4 % 2 = 1)
        carry == /\ up
                 /\ kept4 = Pow2(13 - shift) - 1
                 /\ l3 = Digit13 - 1 /\ l2 = Digit13 - 1 /\ l1 = Digit13 - 1
    IN  (IF carry THEN c0 + 1 ELSE c0) \div Pow2(scale.a)

\* (new_w, new_h) as lines 36-40 compute them; the input size when no resize
\* is done
ProcessedSize(w, h, target_size) ==
    LET max_dim == Max(h, w)
    IN  IF max_dim > target_size
        THEN LET scale == Scale(target_size, max_dim)
             IN  [w |-> IntTimesScale(w, scale), h |-> IntTimesScale(h, scale)]
        ELSE [w |-> w, h |-> h]

(* ---------------------------------------------------------------------- *)
(* src/perception.py: images                                               *)
(*                                                                         *)
(* An image is [w, h, px]: px the pixels in row-major order, each a triple *)
(* <<R, G, B>> of 8-bit values.  A gray image or a mask is the sequence of *)
(* its values in the same order.  Pixel (x, y), counted from 0, is entry   *)
(* y * w + x + 1.                                                          *)
(* ---------------------------------------------------------------------- *)

Idx(x, y, w) == y * w + x + 1
XOf(i, w) == (i - 1) % w
YOf(i, w) == (i - 1) \div w

Min(a, b) == IF a <= b THEN a ELSE b

\* f[lo] + ... + f[hi], by halves
RECURSIVE Sum(_, _, _)
Sum(f, lo, hi) ==
    IF lo > hi THEN 0
    ELSE IF lo = hi THEN f[lo]
    ELSE LET mid == (lo + hi) \div 2
         IN  Sum(f, lo, mid) + Sum(f, mid + 1, hi)

\* an array given entry by entry, as a sequence
Array(f) == SubSeq(f, 1, Len(f))

\* the number of entries of s above t
CountAbove(s, t) == Cardinality({i \in 1..Len(s) : s[i] > t})

\* cv2.resize(img, (new_w, new_h), interpolation=cv2.INTER_AREA) for a
\* shrinking resize: every destination pixel is the area-weighted average of
\* the source pixels it covers.  In units where a source column is new_w wide
\* and a destination column is w wide, Overlap is the shared length.  The
\* exact 2x2 reduction rounds halves up ((sum + 2) >> 2); the other paths
\* round to nearest with halves to even.
Overlap(s, d, sw, dw) ==
    Max(0, Min((d + 1) * sw, (s + 1) * dw) - Max(d * sw, s * dw))

AreaAverage(img, c, dx, dy, new_w, new_h) ==
    LET xlo == (dx * img.w) \div new_w
        xhi == ((dx + 1) * img.w - 1) \div new_w
        ylo == (dy * img.h) \div new_h
        yhi == ((dy + 1) * img.h - 1) \div new_h
        total ==
            Sum([sy \in ylo..yhi |->
                    Overlap(sy, dy, img.h, new_h) *
                    Sum([sx \in xlo..xhi |->
                            Overlap(sx, dx, img.w, new_w) *
                            img.px[Idx(sx, sy, img.w)][c]],
                        xlo, xhi)],
                ylo, yhi)
        whole == img.w * img.h
    IN  IF img.w = 2 * new_w /\ img.h = 2 * new_h
        THEN (2 * total + whole) \div (2 * whole)
        ELSE RoundHalfEven(total, whole)

\* cv2.resize raises cv2.error when the requested size is empty
ResizeRaises(new_w, new_h) == new_w <= 0 \/ new_h <= 0

Resize(img, new_w, new_h) ==
    [w |-> new_w,
     h |-> new_h,
     px |-> Array([i \in 1..(new_w * new_h) |->
                LET dx == XOf(i, new_w)
                    dy == YOf(i, new_w)
                IN  <<AreaAverage(img, 1, dx, dy, new_w, new_h),
                      AreaAverage(img, 2, dx, dy, new_w, new_h),
                      AreaAverage(img, 3, dx, dy, new_w, new_h)>>])]

\* cv2.cvtColor(img, cv2.COLOR_RGB2GRAY): 0.299 R + 0.587 G + 0.114 B in
\* 15-bit fixed point, rounded
GrayShift == Pow2(15)
R2Y == 9798
G2Y == 19235
B2Y == 3735

GrayOf(p) == (p[1] * R2Y + p[2] * G2Y + p[3] * B2Y + GrayShift \div 2) \div GrayShift

CvtGray(img) == Array([i \in 1..(img.w * img.h) |-> GrayOf(img.px[i])])

\* cv2.Laplacian(gray, cv2.CV_64F): the 4-neighbour kernel, borders mirrored
\* without repeating the edge pixel
Reflect101(i, n) ==
    IF n = 1 THEN 0
    ELSE IF i < 0 THEN -i
    ELSE IF i >= n THEN 2 * n - 2 - i
    ELSE i

Laplacian(gray, w, h) ==
    Array([i \in 1..(w * h) |->
        LET x == XOf(i, w)
            y == YOf(i, w)
        IN  gray[Idx(Reflect101(x - 1, w), y, w)]
            + gray[Idx(Reflect101(x + 1, w), y, w)]
            + gray[Idx(x, Reflect101(y - 1, h), w)]
            + gray[Idx(x, Reflect101(y + 1, h), w)]
            - 4 * gray[i]])

\* ndarray.var(): mean of squares minus squared mean.  The value is kept as
\* its moments [n, sum, sumsq], which determine it exactly:
\* var = sumsq / n - (sum / n)^2
Var(a) ==
    [n |-> Len(a),
     sum |-> Sum(a, 1, Len(a)),
     sumsq |-> Sum([i \in 1..Len(a) |-> a[i] * a[i]], 1, Len(a))]

\* np.mean of a non-empty array
Mean(a) == Frac(Sum(a, 1, Len(a)), Len(a))

\* the double 1.1 and (v * 1.1).astype(np.int32): the product is rounded to
\* a double and its fraction dropped
OnePointOne == Scale(11, 10)

\* variant: the product rounded to the nearest integer instead of truncated
TimesOnePointOneRounded(v) == (11 * v + 5) \div 10

TimesOnePointOne(v) == IF v = 0 THEN 0 ELSE IntTimesScale(v, OnePointOne)

\* lines 56-59 for one pixel: red_cond & bright_cond.  (R + G + B) / 3 is
\* the exact quotient: the double division is monotone and 90 / 3 is exact.
RedCond(p) ==
    /\ p[1] > TimesOnePointOne(p[2])
    /\ p[1] > TimesOnePointOne(p[3])
    /\ p[1] > 70

BrightCond(p) == FracGT(Frac(p[1] + p[2] + p[3], 3), 30)

RawMask(img) ==
    Array([i \in 1..(img.w * img.h) |->
        IF RedCond(img.px[i]) /\ BrightCond(img.px[i]) THEN 255 ELSE 0])

\* cv2.getStructuringElement(cv2.MORPH_ELLIPSE, (7, 7)): row dy of the
\* ellipse spans the columns within round(sqrt(r^2 - dy^2)) of the centre
KernelRadius == 7 \div 2

EllipseHalfWidth(dy) ==
    LET v == KernelRadius * KernelRadius - dy * dy
    IN  CHOOSE n \in 0..KernelRadius :
            /\ 4 * v < (2 * n + 1) * (2 * n + 1)
            /\ (n = 0 \/ 4 * v >= (2 * n - 1) * (2 * n - 1))

kernel ==
    {d \in (-KernelRadius..KernelRadius) \X (-KernelRadius..KernelRadius) :
        Abs(d[1]) <= EllipseHalfWidth(d[2])}

\* the pixels of a w x h image under the kernel centred at entry i; kernel
\* positions outside the image are left out of the minimum and the maximum
\* (the default border value of cv2.erode and cv2.dilate)
Under(i, w, h) ==
    {Idx(XOf(i, w) + d[1], YOf(i, w) + d[2], w) : d \in
        {e \in kernel : /\ XOf(i, w) + e[1] >= 0 /\ XOf(i, w) + e[1] < w
                        /\ YOf(i, w) + e[2] >= 0 /\ YOf(i, w) + e[2] < h}}

Erode(mask, w, h) ==
    Array([i \in 1..(w * h) |->
        IF \A j \in Under(i, w, h) : mask[j] > 0 THEN 255 ELSE 0])

Dilate(mask, w, h) ==
    Array([i \in 1..(w * h) |->
        IF \E j \in Under(i, w, h) : mask[j] > 0 THEN 255 ELSE 0])

(* ---------------------------------------------------------------------- *)
(* analyze_image(pil_img, target_size): the frame of one call              *)
(*                                                                         *)
(* A frame holds the arguments, the position in the body and the local     *)
(* variables.  Each step below is one statement group of the source and    *)
(* maps a frame to the next frame.                                         *)
(* ---------------------------------------------------------------------- *)

NoImage == [w |-> 0, h |-> 0, px |-> <<>>]
NoMoments == [n |-> 0, sum |-> 0, sumsq |-> 0]

NoMetrics ==
    [area |-> 0, area_pct |-> ZeroFrac, redness |-> ZeroFrac,
     exudate_ratio |-> ZeroFrac, brightness |-> ZeroFrac,
     blur_var |-> NoMoments, mask |-> <<>>]

NewFrame(pil_img, target_size) ==
    [pc |-> "start", pil_img |-> pil_img, target_size |-> target_size,
     img |-> NoImage, gray |-> <<>>, brightness |-> ZeroFrac,
     blur_var |-> NoMoments, red_mask |-> <<>>,
     metrics |-> NoMetrics, exception |-> ""]

IdleFrame == [NewFrame(NoImage, 0) EXCEPT !.pc = "idle"]

\* no concurrent calls
NoThreads == <<>>

\* lines 33-41 when cv2.resize is not called or succeeds
ResizeStep(f) ==
    LET size == ProcessedSize(f.pil_img.w, f.pil_img.h, f.target_size)
    IN  [f EXCEPT !.pc = "resized",
                  !.img = IF Max(f.pil_img.h, f.pil_img.w) > f.target_size
                          THEN Resize(f.pil_img, size.w, size.h)
                          ELSE f.pil_img]

\* lines 33-41 when cv2.resize raises
ResizeFails(f) ==
    LET size == ProcessedSize(f.pil_img.w, f.pil_img.h, f.target_size)
    IN  /\ Max(f.pil_img.h, f.pil_img.w) > f.target_size
        /\ ResizeRaises(size.w, size.h)

ResizeRaised(f) == [f EXCEPT !.pc = "raised", !.exception = "cv2.error"]

\* lines 44-47
BasicMetricsStep(f) ==
    LET gray == CvtGray(f.img)
    IN  [f EXCEPT !.pc = "measured",
                  !.gray = gray,
                  !.brightness = Mean(gray),
                  !.blur_var = Var(Laplacian(gray, f.img.w, f.img.h))]

\* lines 50-59
RedMaskStep(f) == [f EXCEPT !.pc = "masked", !.red_mask = RawMask(f.img)]

\* line 63: cv2.morphologyEx(red_mask, cv2.MORPH_OPEN, kernel), erosion
\* then dilation
OpenErodeStep(f) ==
    [f EXCEPT !.pc = "open_eroded",
              !.red_mask = Erode(f.red_mask, f.img.w, f.img.h)]

OpenDilateStep(f) ==
    [f EXCEPT !.pc = "opened",
              !.red_mask = Dilate(f.red_mask, f.img.w, f.img.h)]

\* line 64: cv2.morphologyEx(red_mask, cv2.MORPH_CLOSE, kernel), dilation
\* then erosion
CloseDilateStep(f) ==
    [f EXCEPT !.pc = "close_dilated",
              !.red_mask = Dilate(f.red_mask, f.img.w, f.img.h)]

CloseErodeStep(f) ==
    [f EXCEPT !.pc = "closed",
              !.red_mask = Erode(f.red_mask, f.img.w, f.img.h)]

\* variant: the mean red value of the whole image whatever the mask
MaskedMeanWhole(px, mask, area) ==
    Frac(Sum([i \in 1..Len(px) |-> px[i][1]], 1, Len(px)), Len(px))

\* np.mean(R[red_mask > 0]): the mean red value of the pixels set in a
\* mask that has area > 0 set pixels
MaskedMean(px, mask, area) ==
    Frac(Sum([i \in 1..Len(px) |-> IF mask[i] > 0 THEN px[i][1] ELSE 0],
             1, Len(px)),
         area)

\* variant: total_pixels taken from the size of the input image
PackageStepInputSize(f) ==
    LET total_pixels == f.pil_img.w * f.pil_img.h
        area == CountAbove(f.red_mask, 0)
        R == [i \in 1..Len(f.img.px) |-> f.img.px[i][1]]
    IN  [f EXCEPT
            !.pc = "returned",
            !.metrics =
                [area |-> area,
                 area_pct |-> Frac(area * 100, total_pixels),
                 redness |-> IF area > 0
                             THEN MaskedMean(f.img.px, f.red_mask, area)
                             ELSE Mean(R),
                 exudate_ratio |->
                     Frac(CountAbove(f.gray, 230), total_pixels),
                 brightness |-> f.brightness,
                 blur_var |-> f.blur_var,
                 mask |-> f.red_mask]]

\* lines 66-89
PackageStep(f) ==
    LET total_pixels == Len(f.red_mask)
        area == CountAbove(f.red_mask, 0)
        R == [i \in 1..Len(f.img.px) |-> f.img.px[i][1]]
    IN  [f EXCEPT
            !.pc = "returned",
            !.metrics =
                [area |-> area,
                 area_pct |-> Frac(area * 100, total_pixels),
                 redness |-> IF area > 0
                             THEN MaskedMean(f.img.px, f.red_mask, area)
                             ELSE Mean(R),
                 exudate_ratio |->
                     Frac(CountAbove(f.gray, 230), total_pixels),
                 brightness |-> f.brightness,
                 blur_var |-> f.blur_var,
                 mask |-> f.red_mask]]

\* the next frame of a call that has not finished
Step(f) ==
    CASE f.pc = "start" -> IF ResizeFails(f) THEN ResizeRaised(f) ELSE ResizeStep(f)
      [] f.pc = "resized" -> BasicMetricsStep(f)
      [] f.pc = "measured" -> RedMaskStep(f)
      [] f.pc = "masked" -> OpenErodeStep(f)
      [] f.pc = "open_eroded" -> OpenDilateStep(f)
      [] f.pc = "opened" -> CloseDilateStep(f)
      [] f.pc = "close_dilated" -> CloseErodeStep(f)
      [] f.pc = "closed" -> PackageStep(f)

Finished(f) == f.pc \in {"returned", "raised"}

\* the whole call
RECURSIVE Run(_)
Run(f) == IF Finished(f) THEN f ELSE Run(Step(f))

\* target_size=512
DefaultTargetSize == 512

analyze_image(pil_img, target_size) == Run(NewFrame(pil_img, target_size))

\* no dict returned yet
NoDecision ==
    [status |-> "", delta_pct |-> ZeroFrac, quality |-> "", explanation |-> <<>>]

(* ---------------------------------------------------------------------- *)
(* src/llm.py: generate_llm_rationale                                      *)
(*                                                                         *)
(* A Python string is a sequence of characters; the fixed sentences of the *)
(* fallback are written as one symbol each.  A JSON value is a tagged      *)
(* record: a string, a list or a dict.  The prompt built by _build_prompt  *)
(* is only sent to the server, whose answer is an input of the call.       *)
(* ---------------------------------------------------------------------- *)

JStr(s) == [kind |-> "str", text |-> s]
JList(l) == [kind |-> "list", items |-> l]
JDict(d) == [kind |-> "dict", dict |-> d]

\* the truth value of a JSON value
JTruthy(v) ==
    CASE v.kind = "str" -> v.text # <<>>
      [] v.kind = "list" -> v.items # <<>>
      [] v.kind = "dict" -> DOMAIN v.dict # {}

\* the characters of the strings the code names
Chars(s) ==
    CASE s = "Stable" -> <<"S", "t", "a", "b", "l", "e">>
      [] s = "Monitor" -> <<"M", "o", "n", "i", "t", "o", "r">>
      [] s = "Concerning" -> <<"C", "o", "n", "c", "e", "r", "n", "i", "n", "g">>
      [] s = "Urgent" -> <<"U", "r", "g", "e", "n", "t">>
      [] s = "Unknown" -> <<"U", "n", "k", "n", "o", "w", "n">>
      [] s = "None" -> <<"N", "o", "n", "e">>
      [] s = "infect" -> <<"i", "n", "f", "e", "c", "t">>
      [] s = "high" -> <<"h", "i", "g", "h">>
      [] s = "urgent" -> <<"u", "r", "g", "e", "n", "t">>
      [] s = "content" -> <<"c", "o", "n", "t", "e", "n", "t">>
      [] s = "output" -> <<"o", "u", "t", "p", "u", "t">>
      [] s = "text" -> <<"t", "e", "x", "t">>
      [] s = "result" -> <<"r", "e", "s", "u", "l", "t">>
      [] s = "Status: " -> <<"S", "t", "a", "t", "u", "s", ":", " ">>

LowerChar(c) ==
    CASE c = "C" -> "c" [] c = "M" -> "m" [] c = "N" -> "n" [] c = "S" -> "s"
      [] c = "U" -> "u" [] OTHER -> c

\* a variant that keeps the case of the status
LowerKeepsCase(s) == s

\* str.lower()
Lower(s) == [i \in 1..Len(s) |-> LowerChar(s[i])]

\* sub in s, for strings
Contains(s, sub) ==
    \E i \in 0..(Len(s) - Len(sub)) : SubSeq(s, i + 1, i + Len(sub)) = sub

\* "\n".join(lines)
RECURSIVE Join(_)
Join(lines) ==
    IF lines = <<>> THEN <<>>
    ELSE IF Len(lines) = 1 THEN lines[1]
    ELSE lines[1] \o <<"\n">> \o Join(Tail(lines))

\* lines 84-88 and 90-94: the two advice blocks
UrgentAdvice ==
    << <<"This wound may be infected or require urgent assessment. Contact a clinician promptly.">>,
       <<"Suggested next steps:">>,
       <<"- Seek urgent clinical review or primary care contact.">>,
       <<"- Keep the area clean and avoid applying unprescribed treatments.">>,
       <<"- If there is spreading redness, fever, or increasing pain, go to emergency care.">> >>

LocalCareAdvice ==
    << <<"The wound appears stable. Continue local wound care and monitor for changes.">>,
       <<"Suggested next steps:">>,
       <<"- Clean with saline and apply a clean dressing daily.">>,
       <<"- Monitor for increased redness, swelling, or discharge.">>,
       <<"- Follow up with your clinician within 3-7 days or sooner if concerned.">> >>

\* f"{status}": a string prints as itself, None as "None"
FormatValue(v) == IF v.kind = "str" THEN v.str ELSE Chars("None")

\* lines 78-96: the rationale written without the LLM.  decision_arg is an
\* Optional[Dict] whose "status" value is a Python value
Fallback(decision_arg) ==
    LET d == IF Truthy(decision_arg) THEN decision_arg.dict ELSE <<>>
        status == IF "status" \in DOMAIN d THEN d["status"] ELSE Str(Chars("Unknown"))
        first == Chars("Status: ") \o FormatValue(status) \o <<".">>
        s == IF status.kind = "str" THEN Lower(status.str) ELSE <<>>
    IN  IF Contains(s, Chars("infect")) \/ Contains(s, Chars("high"))
           \/ Contains(s, Chars("urgent"))
        THEN JStr(Join(<<first>> \o UrgentAdvice))
        ELSE JStr(Join(<<first>> \o LocalCareAdvice))

\* data[key][0] for a truthy value: an element of a list, a character of a
\* string, KeyError for a dict
FirstItem(v) ==
    CASE v.kind = "list" -> Ok(v.items[1])
      [] v.kind = "str" -> Ok(JStr(<<v.text[1]>>))
      [] v.kind = "dict" -> Raise("KeyError")

\* f in item: a key of a dict, a substring of a string, an element of a list
HasField(item, f) ==
    CASE item.kind = "dict" -> f \in DOMAIN item.dict
      [] item.kind = "str" -> Contains(item.text, Chars(f))
      [] item.kind = "list" -> \E i \in 1..Len(item.items) : item.items[i] = JStr(Chars(f))

\* item[f] once f in item holds: the value of a dict; a string or a list
\* cannot be indexed by a string
Field(item, f) ==
    IF item.kind = "dict" THEN Ok(item.dict[f]) ELSE Raise("TypeError")

NestedFields == <<"content", "output", "text", "result">>

\* lines 69-71: the first of the four fields the item has, if any
RECURSIVE FirstField(_, _)
FirstField(item, i) ==
    IF i > Len(NestedFields) THEN [found |-> FALSE, result |-> Ok(JStr(<<>>))]
    ELSE IF HasField(item, NestedFields[i])
    THEN [found |-> TRUE, result |-> Field(item, NestedFields[i])]
    ELSE FirstField(item, i + 1)

NestedKeys == <<"candidates", "outputs", "results">>

\* lines 66-72: the nested search, and "" when nothing is found
RECURSIVE Nested(_, _)
Nested(d, k) ==
    IF k > Len(NestedKeys) THEN Ok(JStr(<<>>))
    ELSE IF NestedKeys[k] \in DOMAIN d /\ JTruthy(d[NestedKeys[k]])
    THEN LET item == FirstItem(d[NestedKeys[k]])
         IN  IF item.raised THEN item
             ELSE LET r == FirstField(item.val, 1)
                  IN  IF r.found THEN r.result ELSE Nested(d, k + 1)
    ELSE Nested(d, k + 1)

\* lines 59-72: what the try block returns for the parsed answer, or the
\* exception it raises
ParseAnswer(data) ==
    IF data.kind # "dict" THEN Ok(JStr(<<>>))
    ELSE LET d == data.dict
         IN  IF "candidates" \in DOMAIN d /\ JTruthy(d["candidates"])
             THEN LET item == FirstItem(d["candidates"])
                  IN  IF item.raised THEN item
                      ELSE IF item.val.kind # "dict" THEN Raise("AttributeError")
                      ELSE IF "output" \in DOMAIN item.val.dict
                      THEN Ok(item.val.dict["output"])
                      ELSE Ok(JStr(<<>>))
             ELSE IF "output" \in DOMAIN d THEN Ok(d["output"])
             ELSE Nested(d, 1)

\* the environment of a call: whether an API key is configured, and what the
\* request does (it raises, or the server answers with JSON)
Env(api_key, answer) == [api_key |-> api_key, answer |-> answer]
RequestRaises == [raised |-> TRUE, data |-> JStr(<<>>)]
Answer(data) == [raised |-> FALSE, data |-> data]

\* lines 44-96; an exception inside the try block is caught at line 73
generate_llm_rationale(decision_arg, env) ==
    IF env.api_key /\ ~env.answer.raised /\ ~ParseAnswer(env.answer.data).raised
    THEN ParseAnswer(env.answer.data)
    ELSE Ok(Fallback(decision_arg))

(* ---------------------------------------------------------------------- *)
(* src/action.py: save_image_file and insert_record_sqlite                 *)
(*                                                                         *)
(* The records table is the sequence of its rows; ids are given out by     *)
(* AUTOINCREMENT and no row is ever deleted, so the id of a new row is one *)
(* more than the number of rows.  Whether the file system and the database *)
(* file can be written is an input of the call.                            *)
(* ---------------------------------------------------------------------- *)

\* the rationale of a record when generate_llm_rationale raised
NoRationale == [kind |-> "none"]

\* json.dumps(v): the JSON text of v
Json(v) == [json |-> v]

\* lines 60-72
save_image_file(pil_img, disk_ok) ==
    IF disk_ok THEN Ok("data/uploads/upload.jpg") ELSE Raise("OSError")

\* sqlite3 binds None, numbers and strings to a parameter; a dict or a list
\* raises ProgrammingError
Bindable(v) == v.kind \in {"none", "str"}

Row(id, record) ==
    [id |-> id,
     image_path |-> record.image_path,
     metrics_json |-> Json(record.metrics),
     decision_json |-> Json(record.decision),
     rationale |-> record.rationale,
     context_json |-> Json(record.context)]

Inserted(raised, exc, rows, rid) ==
    [raised |-> raised, exc |-> exc, rows |-> rows, rid |-> rid]

\* a variant that returns the id of the row before the new one
insert_record_sqlite_stale_id(rows, record, db_ok) ==
    IF ~db_ok THEN Inserted(TRUE, "OperationalError", rows, 0)
    ELSE IF ~Bindable(record.rationale)
    THEN Inserted(TRUE, "ProgrammingError", rows, 0)
    ELSE Inserted(FALSE, "", Append(rows, Row(Len(rows) + 1, record)), Len(rows))

\* lines 75-103: the rows after the call and the id returned, or the
\* exception raised before the commit
insert_record_sqlite(rows, record, db_ok) ==
    IF ~db_ok THEN Inserted(TRUE, "OperationalError", rows, 0)
    ELSE IF ~Bindable(record.rationale)
    THEN Inserted(TRUE, "ProgrammingError", rows, 0)
    ELSE Inserted(FALSE, "", Append(rows, Row(Len(rows) + 1, record)), Len(rows) + 1)

(* ---------------------------------------------------------------------- *)
(* src/app.py: the session state and the "Analyze Wound" handler           *)
(*                                                                         *)
(* The metrics analyze_image returns are exact fractions; decide_status    *)
(* reads fixed-point numbers.  A fraction is cut to thousandths, which     *)
(* keeps every comparison of decide_status for the images of fewer than a  *)
(* thousand pixels analysed here.  The age and notes widgets and the time  *)
(* stamps only travel into the record and are left out.                    *)
(* ---------------------------------------------------------------------- *)

\* Optional values of the session
None == [isNone |-> TRUE]
Some(v) == [isNone |-> FALSE, val |-> v]

\* lines 24-31
SessionDefaults ==
    [uploaded |-> None, timeline |-> <<>>, latest_record |-> None]

\* an uploaded file: its bytes decode to an image or do not
ImageFile(pil) == [decodes |-> TRUE, pil |-> pil]
BrokenFile == [decodes |-> FALSE, pil |-> NoImage]

\* the locals of the handler when it ends
NoMetricSet == MkDict([area |-> Absent])
RunOf(outcome, step) ==
    [outcome |-> outcome, step |-> step, classified |-> FALSE,
     clean_metrics |-> NoMetricSet, prev |-> NoneDict, decision |-> NoDecision,
     rationale |-> NoRationale, rec_id |-> 0]
NoRun == RunOf("idle", "")

\* no direct call of generate_llm_rationale is under way
NoCall ==
    [pc |-> "idle", decision |-> NoneDict, env |-> Env(FALSE, RequestRaises),
     result |-> Ok(JStr(<<>>))]

\* the application is not running
AppIdle ==
    /\ session_state = SessionDefaults
    /\ records = <<>>
    /\ analyze = NoRun
    /\ llm_call = NoCall

(* ---------------------------------------------------------------------- *)
(* The state machine: one call of decide_status on the drawn arguments     *)
(* ---------------------------------------------------------------------- *)

Init ==
    /\ curr_metrics \in CurrMetricSets
    /\ prev_metrics \in PrevMetricSets
    /\ pc = "call"
    /\ exception = ""
    /\ decision = NoDecision
    /\ frame = IdleFrame
    /\ threads = NoThreads
    /\ AppIdle

\* decide_status(curr_metrics, prev_metrics) returns its dict
DecideStatusReturns ==
    /\ pc = "call"
    /\ LET r == decide_status(curr_metrics, prev_metrics)
       IN  /\ ~r.raised
           /\ decision' = r.val
    /\ pc' = "returned"
    /\ UNCHANGED <<curr_metrics, prev_metrics, exception, frame, threads, appVars>>

\* a float() conversion inside the call raises; the exception reaches the caller
DecideStatusRaises ==
    /\ pc = "call"
    /\ LET r == decide_status(curr_metrics, prev_metrics)
       IN  /\ r.raised
           /\ exception' = r.exc
    /\ pc' = "raised"
    /\ UNCHANGED <<curr_metrics, prev_metrics, decision, frame, threads, appVars>>

Next == DecideStatusReturns \/ DecideStatusRaises

Spec == Init /\ [][Next]_vars

(* ---------------------------------------------------------------------- *)
(* The images analyze_image is called on                                   *)
(* ---------------------------------------------------------------------- *)

Black == <<0, 0, 0>>
White == <<255, 255, 255>>
Gray == <<128, 128, 128>>
Red == <<200, 50, 50>>
Magenta == <<255, 0, 255>>
Yellow == <<255, 255, 0>>

\* the largest side of a speckle and of a hole painted into a scene
MaxSpeckle == 4
MaxHole == 6

Uniform(w, h, c) == [w |-> w, h |-> h, px |-> Array([i \in 1..(w * h) |-> c])]

Checker(w, h, c1, c2) ==
    [w |-> w, h |-> h,
     px |-> Array([i \in 1..(w * h) |->
                IF (XOf(i, w) + YOf(i, w)) % 2 = 0 THEN c1 ELSE c2])]

Rect(x, y, w, h) == [x |-> x, y |-> y, w |-> w, h |-> h]

InRect(x, y, r) ==
    /\ x >= r.x /\ x < r.x + r.w
    /\ y >= r.y /\ y < r.y + r.h

\* a background with a blob and a speckle of colour fg; the hole shows the
\* background through the blob
Scene(w, h, bg, fg, blob, speckle, hole) ==
    [w |-> w, h |-> h,
     px |-> Array([i \in 1..(w * h) |->
                LET x == XOf(i, w)
                    y == YOf(i, w)
                IN  IF InRect(x, y, hole) THEN bg
                    ELSE IF InRect(x, y, blob) \/ InRect(x, y, speckle) THEN fg
                    ELSE bg])]

Call(img, target_size) == [img |-> img, target_size |-> target_size]

\* one colour everywhere, from a single pixel up
UniformCalls ==
    {Call(Uniform(s[1], s[2], c), DefaultTargetSize) :
        s \in {<<1, 1>>, <<3, 2>>, <<7, 7>>, <<9, 8>>},
        c \in {Black, White, Gray, Red}}

\* larger than the default cap in one dimension
ThinCalls ==
    {Call(Uniform(1, 513, Gray), DefaultTargetSize),
     Call(Uniform(513, 1, Red), DefaultTargetSize),
     Call(Uniform(2, 513, Red), DefaultTargetSize),
     Call(Checker(2, 1024, Magenta, Yellow), DefaultTargetSize)}

\* larger than an explicit small cap in both dimensions
SmallTargetCalls ==
    {Call(i, t) :
        i \in {Checker(8, 8, Magenta, Yellow),
               Uniform(8, 2, Red),
               Uniform(9, 6, White),
               Scene(7, 5, Gray, Red, Rect(2, 1, 4, 3), Rect(0, 0, 0, 0),
                     Rect(0, 0, 0, 0))},
        t \in {3, 4}}

\* a 19 x 11 scene: a 9 x 9 blob at the right and a speckle in the corner,
\* at the left edge or in the interior
SpeckleCalls ==
    {Call(Scene(19, 11, bg, Red,
                Rect(10, 1, 9, 9),
                Rect(at[1], at[2], s, s),
                Rect(0, 0, 0, 0)),
          DefaultTargetSize) :
        bg \in {Gray, Black},
        at \in {<<0, 0>>, <<0, 3>>, <<3, 3>>},
        s \in 0..MaxSpeckle}

\* a 20 x 20 blob with a hole that shows gray or white
HoleCalls ==
    {Call(Scene(20, 20, bg, Red,
                Rect(0, 0, 20, 20),
                Rect(0, 0, 0, 0),
                Rect(7, 7, hs, hs)),
          DefaultTargetSize) :
        bg \in {Gray, White},
        hs \in {1, 3, MaxHole}}

ImageCalls ==
    UniformCalls \cup ThinCalls \cup SmallTargetCalls \cup SpeckleCalls \cup HoleCalls

(* ---------------------------------------------------------------------- *)
(* The state machine of one call of analyze_image                          *)
(* ---------------------------------------------------------------------- *)

decisionVars == <<curr_metrics, prev_metrics, pc, exception, decision>>

\* no call of decide_status is under way
DecisionIdle ==
    /\ curr_metrics = NoneDict.dict
    /\ prev_metrics = NoneDict
    /\ pc = "idle"
    /\ exception = ""
    /\ decision = NoDecision

InitImage ==
    /\ frame \in {NewFrame(c.img, c.target_size) : c \in ImageCalls}
    /\ threads = NoThreads
    /\ DecisionIdle
    /\ AppIdle

AnalyzeResizes ==
    /\ frame.pc = "start"
    /\ ~ResizeFails(frame)
    /\ frame' = ResizeStep(frame)
    /\ UNCHANGED <<decisionVars, threads, appVars>>

AnalyzeResizeRaises ==
    /\ frame.pc = "start"
    /\ ResizeFails(frame)
    /\ frame' = ResizeRaised(frame)
    /\ UNCHANGED <<decisionVars, threads, appVars>>

AnalyzeMeasures ==
    /\ frame.pc = "resized"
    /\ frame' = BasicMetricsStep(frame)
    /\ UNCHANGED <<decisionVars, threads, appVars>>

AnalyzeMasks ==
    /\ frame.pc = "measured"
    /\ frame' = RedMaskStep(frame)
    /\ UNCHANGED <<decisionVars, threads, appVars>>

AnalyzeOpenErodes ==
    /\ frame.pc = "masked"
    /\ frame' = OpenErodeStep(frame)
    /\ UNCHANGED <<decisionVars, threads, appVars>>

AnalyzeOpenDilates ==
    /\ frame.pc = "open_eroded"
    /\ frame' = OpenDilateStep(frame)
    /\ UNCHANGED <<decisionVars, threads, appVars>>

AnalyzeCloseDilates ==
    /\ frame.pc = "opened"
    /\ frame' = CloseDilateStep(frame)
    /\ UNCHANGED <<decisionVars, threads, appVars>>

AnalyzeCloseErodes ==
    /\ frame.pc = "close_dilated"
    /\ frame' = CloseErodeStep(frame)
    /\ UNCHANGED <<decisionVars, threads, appVars>>

AnalyzeReturns ==
    /\ frame.pc = "closed"
    /\ frame' = PackageStep(frame)
    /\ UNCHANGED <<decisionVars, threads, appVars>>

NextImage ==
    \/ AnalyzeResizes
    \/ AnalyzeResizeRaises
    \/ AnalyzeMeasures
    \/ AnalyzeMasks
    \/ AnalyzeOpenErodes
    \/ AnalyzeOpenDilates
    \/ AnalyzeCloseDilates
    \/ AnalyzeCloseErodes
    \/ AnalyzeReturns

SpecImage == InitImage /\ [][NextImage]_vars

(* ---------------------------------------------------------------------- *)
(* The mask condition on single pixels: calls on 1 x 1 images that have    *)
(* reached line 50.  Every pair (R, G) and every pair (R, B) of 8-bit      *)
(* values occurs, with the third channel drawn from a few values.          *)
(* ---------------------------------------------------------------------- *)

Byte == 0..255
ChannelSamples == {0, 64, 255}

\* the frame of a call on a single pixel, about to compute the mask
PixelFrame(p) ==
    BasicMetricsStep(ResizeStep(NewFrame(Uniform(1, 1, p), DefaultTargetSize)))

InitPixel ==
    /\ \E r \in Byte, v \in Byte, c \in ChannelSamples :
           \/ frame = PixelFrame(<<r, v, c>>)
           \/ frame = PixelFrame(<<r, c, v>>)
    /\ threads = NoThreads
    /\ DecisionIdle
    /\ AppIdle

NextPixel == AnalyzeMasks

SpecPixel == InitPixel /\ [][NextPixel]_vars

(* ---------------------------------------------------------------------- *)
(* Concurrent calls.  Each thread makes calls of analyze_image and of      *)
(* decide_status, one after the other; the threads interleave at the       *)
(* statement groups of analyze_image.  Neither function reads or writes a  *)
(* module-level name: the arguments and locals of a call live in the       *)
(* frame of the thread that makes it.                                      *)
(* ---------------------------------------------------------------------- *)

Threads == {1, 2}

\* the calls one thread makes
MaxCalls == 2

NoOutcome == Raise("")

IdleThread ==
    [fn |-> "none", done |-> TRUE, calls |-> 0,
     args |-> Call(NoImage, 0), frame |-> IdleFrame,
     curr_metrics |-> NoneDict.dict, prev_metrics |-> NoneDict,
     outcome |-> NoOutcome]

ConcurrentImageCalls ==
    {Call(Uniform(3, 2, Red), DefaultTargetSize),
     Call(Uniform(2, 2, Gray), DefaultTargetSize),
     Call(Checker(4, 2, Magenta, Yellow), 2),
     Call(Uniform(8, 2, Red), 3)}

ConcurrentCurrMetrics ==
    {MkDict([area |-> Num(20 * Milli), redness |-> Num(160 * Milli)]),
     MkDict([area |-> PyNone])}

ConcurrentPrevMetrics ==
    {NoneDict, SomeDict(MkDict([area |-> Num(10 * Milli)]))}

\* variant: the locals of analyze_image held in one module-level place that
\* every thread uses
LocalsShared(ts, t) == ts[1].frame

\* the locals of the call thread t is making
Locals(ts, t) == ts[t].frame

InitConcurrent ==
    /\ threads = [t \in Threads |-> IdleThread]
    /\ frame = IdleFrame
    /\ DecisionIdle
    /\ AppIdle

ThreadCallsAnalyzeImage(t) ==
    /\ threads[t].done
    /\ threads[t].calls < MaxCalls
    /\ \E c \in ConcurrentImageCalls :
          threads' = [threads EXCEPT ![t] =
              [IdleThread EXCEPT !.fn = "analyze_image",
                                 !.done = FALSE,
                                 !.calls = threads[t].calls + 1,
                                 !.args = c,
                                 !.frame = NewFrame(c.img, c.target_size)]]
    /\ UNCHANGED <<decisionVars, frame, appVars>>

ThreadAnalyzeSteps(t) ==
    /\ threads[t].fn = "analyze_image"
    /\ ~threads[t].done
    /\ Locals(threads, t).pc \notin {"idle", "returned", "raised"}
    /\ LET f == Step(Locals(threads, t))
       IN  threads' = [threads EXCEPT ![t].frame = f,
                                      ![t].done = Finished(f)]
    /\ UNCHANGED <<decisionVars, frame, appVars>>

ThreadCallsDecideStatus(t) ==
    /\ threads[t].done
    /\ threads[t].calls < MaxCalls
    /\ \E c \in ConcurrentCurrMetrics, p \in ConcurrentPrevMetrics :
          threads' = [threads EXCEPT ![t] =
              [IdleThread EXCEPT !.fn = "decide_status",
                                 !.done = FALSE,
                                 !.calls = threads[t].calls + 1,
                                 !.curr_metrics = c,
                                 !.prev_metrics = p]]
    /\ UNCHANGED <<decisionVars, frame, appVars>>

ThreadDecideStatusReturns(t) ==
    /\ threads[t].fn = "decide_status"
    /\ ~threads[t].done
    /\ LET r == decide_status(threads[t].curr_metrics, threads[t].prev_metrics)
       IN  /\ ~r.raised
           /\ threads' = [threads EXCEPT ![t].outcome = r, ![t].done = TRUE]
    /\ UNCHANGED <<decisionVars, frame, appVars>>

ThreadDecideStatusRaises(t) ==
    /\ threads[t].fn = "decide_status"
    /\ ~threads[t].done
    /\ LET r == decide_status(threads[t].curr_metrics, threads[t].prev_metrics)
       IN  /\ r.raised
           /\ threads' = [threads EXCEPT ![t].outcome = r, ![t].done = TRUE]
    /\ UNCHANGED <<decisionVars, frame, appVars>>

NextConcurrent ==
    \E t \in Threads :
        \/ ThreadCallsAnalyzeImage(t)
        \/ ThreadAnalyzeSteps(t)
        \/ ThreadCallsDecideStatus(t)
        \/ ThreadDecideStatusReturns(t)
        \/ ThreadDecideStatusRaises(t)

SpecConcurrent == InitConcurrent /\ [][NextConcurrent]_vars

(* ---------------------------------------------------------------------- *)
(* The state machine of direct calls of generate_llm_rationale             *)
(* ---------------------------------------------------------------------- *)

\* the decisions passed: None, {}, every status of decide_status, a status
\* "Unknown" and a status that is no string
RationaleDecisions ==
    {NoneDict, SomeDict(<<>>), SomeDict([status |-> PyNone])} \cup
    {SomeDict([status |-> Str(Chars(s))]) :
        s \in {"Stable", "Monitor", "Concerning", "Urgent", "Unknown"}}

Summary == JStr(<<"summary">>)
Parts == JDict([parts |-> JList(<<Summary>>)])

\* the answers of the server: the documented shape, the shapes lines 63-71
\* look for, and shapes they do not expect
TextAnswer == Answer(JDict([candidates |-> JList(<<JDict([output |-> Summary])>>)]))
EmptyAnswer == Answer(JDict(<<>>))
ObjectAnswer == Answer(JDict([results |-> JList(<<JDict([content |-> Parts])>>)]))
Answers ==
    {RequestRaises, TextAnswer, EmptyAnswer, ObjectAnswer,
     Answer(JDict([candidates |-> JList(<<JDict([content |-> Parts])>>)])),
     Answer(JDict([candidates |-> JList(<<Summary>>)])),
     Answer(JDict([candidates |-> JList(<<>>), output |-> Summary])),
     Answer(JDict([outputs |-> JList(<<JStr(Chars("text"))>>)])),
     Answer(JDict([outputs |-> JList(<<JDict([other |-> Summary])>>),
                   results |-> JList(<<JDict([text |-> Summary])>>)])),
     Answer(JList(<<Summary>>))}

Envs == {Env(k, a) : k \in BOOLEAN, a \in Answers}

appOtherVars == <<session_state, records, analyze>>

InitRationale ==
    /\ \E d \in RationaleDecisions, e \in Envs :
           llm_call = [pc |-> "call", decision |-> d, env |-> e,
                       result |-> Ok(JStr(<<>>))]
    /\ session_state = SessionDefaults
    /\ records = <<>>
    /\ analyze = NoRun
    /\ frame = IdleFrame
    /\ threads = NoThreads
    /\ DecisionIdle

\* generate_llm_rationale returns: no path of the function raises
GenerateRationaleReturns ==
    /\ llm_call.pc = "call"
    /\ LET r == generate_llm_rationale(llm_call.decision, llm_call.env)
       IN  /\ ~r.raised
           /\ llm_call' = [llm_call EXCEPT !.pc = "returned", !.result = r]
    /\ UNCHANGED <<decisionVars, frame, threads, appOtherVars>>

NextRationale == GenerateRationaleReturns

SpecRationale == InitRationale /\ [][NextRationale]_vars

(* ---------------------------------------------------------------------- *)
(* The state machine of the application: reruns of the Upload page in      *)
(* browser sessions that share the records table                           *)
(* ---------------------------------------------------------------------- *)

\* rows the table may hold
MaxRecords == 2

Rose == <<100, 50, 50>>

\* the images uploaded: wounds of two sizes, and an image analyze_image
\* raises on
SampleImages ==
    <<Uniform(2, 2, Rose), Uniform(3, 2, Rose),
      Uniform(DefaultTargetSize + 1, 1, Gray)>>

\* analyze_image(pil) for each of them, computed once
SampleFrames ==
    Array([i \in 1..Len(SampleImages) |->
              analyze_image(SampleImages[i], DefaultTargetSize)])

\* line 366: metrics = analyze_image(pil)
AnalyzedUpload(pil) ==
    SampleFrames[CHOOSE i \in 1..Len(SampleImages) : SampleImages[i] = pil]

\* the fixed-point number of a fraction, and of the variance of moments
Fixed(f) == (f.num * Milli) \div f.den
VarFixed(m) == ((m.n * m.sumsq - m.sum * m.sum) * Milli) \div (m.n * m.n)

\* ndarray.tolist() of a mask of width w: the list of its rows
ToList(mask, w) ==
    Array([y \in 1..(Len(mask) \div w) |-> SubSeq(mask, (y - 1) * w + 1, y * w)])

PyList(l) == [kind |-> "list", num |-> 0, str |-> l]

\* lines 368-378: the mask becomes a list, the numbers are kept
CleanMetrics(f) ==
    [area |-> Num(f.metrics.area * Milli),
     area_pct |-> Num(Fixed(f.metrics.area_pct)),
     redness |-> Num(Fixed(f.metrics.redness)),
     exudate_ratio |-> Num(Fixed(f.metrics.exudate_ratio)),
     brightness |-> Num(Fixed(f.metrics.brightness)),
     blur_var |-> Num(VarFixed(f.metrics.blur_var)),
     mask |-> PyList(ToList(f.metrics.mask, f.img.w))]

\* line 379
PrevOf(timeline) ==
    IF timeline # <<>> THEN SomeDict(timeline[1].metrics) ELSE NoneDict

\* the decision as generate_llm_rationale reads it: only "status" is read
\* outside the prompt
DecisionArg(d) == SomeDict([status |-> Str(Chars(d.status))])

\* line 390: timeline.insert(0, entry)
TimelineInsert(timeline, entry) == <<entry>> \o timeline

\* the widgets of a rerun and what the handler's calls meet outside
Widgets(uploaded, name, consent) ==
    [uploaded |-> uploaded, name |-> name, consent |-> consent]
Outside(llm, disk_ok, db_ok) == [llm |-> llm, disk_ok |-> disk_ok, db_ok |-> db_ok]

AppState(ss, rows, run) == [session_state |-> ss, records |-> rows, analyze |-> run]

\* lines 385-392, entered with decision and rationale computed
Persist(ss, rows, w, out, run) ==
    LET saved == save_image_file(ss.uploaded.val.pil, out.disk_ok)
        record == [image_path |-> saved.val, metrics |-> run.clean_metrics,
                   decision |-> run.decision, rationale |-> run.rationale,
                   context |-> [name |-> w.name]]
        ins == insert_record_sqlite(rows, record, out.db_ok)
        entry == [text |-> run.decision.status, metrics |-> run.clean_metrics,
                  id |-> ins.rid]
    IN  IF saved.raised
        THEN AppState(ss, rows, [run EXCEPT !.outcome = "failed", !.step = "save_image_file"])
        ELSE IF ins.raised
        THEN AppState(ss, rows, [run EXCEPT !.outcome = "failed", !.step = "insert_record_sqlite"])
        ELSE AppState([ss EXCEPT !.latest_record = Some(record @@ [id |-> ins.rid]),
                                 !.timeline = TimelineInsert(ss.timeline, entry)],
                      ins.rows,
                      [run EXCEPT !.outcome = "completed", !.rec_id = ins.rid])

\* lines 382-384, then the rest of the try block: r is what
\* generate_llm_rationale did
Explained(ss, rows, w, out, run, r) ==
    Persist(ss, rows, w, out,
            [run EXCEPT !.rationale = IF r.raised THEN NoRationale ELSE r.val])

\* lines 380-382: d is what decide_status did
Decided(ss, rows, w, out, run, d) ==
    IF d.raised
    THEN AppState(ss, rows, [run EXCEPT !.outcome = "failed", !.step = "decide_status"])
    ELSE Explained(ss, rows, w, out, [run EXCEPT !.decision = d.val],
                   generate_llm_rationale(DecisionArg(d.val), out.llm))

\* lines 379-380
Classified(ss, rows, w, out, clean_metrics, prev) ==
    Decided(ss, rows, w, out,
            [RunOf("running", "") EXCEPT
                !.classified = TRUE,
                !.clean_metrics = clean_metrics,
                !.prev = prev],
            decide_status(clean_metrics, prev))

\* lines 367-379: f is the frame analyze_image ended in
Measured(ss, rows, w, out, f) ==
    IF f.pc = "raised"
    THEN AppState(ss, rows, RunOf("failed", "analyze_image"))
    ELSE Classified(ss, rows, w, out, CleanMetrics(f), PrevOf(ss.timeline))

\* lines 364-366: the try block
Analysis(ss, rows, w, out) ==
    IF ~ss.uploaded.val.decodes
    THEN AppState(ss, rows, RunOf("failed", "Image.open"))
    ELSE Measured(ss, rows, w, out, AnalyzedUpload(ss.uploaded.val.pil))

\* lines 358-393: the button pressed, the uploaded file stored
Pressed(ss, rows, w, out) ==
    IF ss.uploaded.isNone
    THEN AppState(ss, rows, RunOf("no_image", ""))
    ELSE IF ~w.consent
    THEN AppState(ss, rows, RunOf("no_consent", ""))
    ELSE Analysis(ss, rows, w, out)

\* lines 356-393: one rerun of the Upload page with the button pressed
Analyze(ss, rows, w, out) ==
    Pressed(IF ~w.uploaded.isNone THEN [ss EXCEPT !.uploaded = w.uploaded] ELSE ss,
            rows, w, out)

\* the file in the uploader widget: none, a file that is no image, or one
\* of the images
Uploads ==
    {None, Some(BrokenFile)} \cup
    {Some(ImageFile(SampleImages[i])) : i \in 1..Len(SampleImages)}

PatientNames == {"Ann", "Bob"}

\* what the handler's calls meet: each answer of the LLM with the disk and
\* the database writable, and each of the two failing with no API key
Outsides ==
    {Outside(Env(FALSE, RequestRaises), TRUE, TRUE),
     Outside(Env(FALSE, RequestRaises), FALSE, TRUE),
     Outside(Env(FALSE, RequestRaises), TRUE, FALSE),
     Outside(Env(TRUE, RequestRaises), TRUE, TRUE),
     Outside(Env(TRUE, TextAnswer), TRUE, TRUE),
     Outside(Env(TRUE, EmptyAnswer), TRUE, TRUE),
     Outside(Env(TRUE, ObjectAnswer), TRUE, TRUE)}

InitSession ==
    /\ session_state = SessionDefaults
    /\ records = <<>>
    /\ analyze = NoRun
    /\ llm_call = NoCall
    /\ frame = IdleFrame
    /\ threads = NoThreads
    /\ DecisionIdle

otherVars == <<decisionVars, frame, threads, llm_call>>

\* the state after the handler ended as outcome on the widgets w, meeting out
Handled(w, out, outcome) ==
    \E a \in {Analyze(session_state, records, w, out)} :
        /\ a.analyze.outcome = outcome
        /\ session_state' = a.session_state
        /\ records' = a.records
        /\ analyze' = a.analyze
        /\ UNCHANGED otherVars

\* a rerun without the button: lines 356-357 store the uploaded file
UploadPageReruns ==
    /\ \E u \in Uploads :
           session_state' = IF ~u.isNone
                            THEN [session_state EXCEPT !.uploaded = u]
                            ELSE session_state
    /\ UNCHANGED <<records, analyze, otherVars>>

\* the uploader widget keeps its file from the rerun that stored it, so a
\* rerun with the button pressed meets the file of the session
\* "Analyze Wound" pressed with no file uploaded in the session
AnalyzeWithoutImage ==
    /\ session_state.uploaded.isNone
    /\ \E n \in PatientNames, c \in BOOLEAN, out \in Outsides :
           Handled(Widgets(session_state.uploaded, n, c), out, "no_image")

\* "Analyze Wound" pressed with the consent box unchecked
AnalyzeWithoutConsent ==
    /\ ~session_state.uploaded.isNone
    /\ \E n \in PatientNames, out \in Outsides :
           Handled(Widgets(session_state.uploaded, n, FALSE), out, "no_consent")

\* "Analyze Wound" pressed and a step of the try block raises
AnalyzeFails ==
    /\ ~session_state.uploaded.isNone
    /\ \E n \in PatientNames, out \in Outsides :
           Handled(Widgets(session_state.uploaded, n, TRUE), out, "failed")

\* "Analyze Wound" pressed and the record is stored
AnalyzeCompletes ==
    /\ Len(records) < MaxRecords
    /\ \E n \in PatientNames, out \in Outsides :
           Handled(Widgets(session_state.uploaded, n, TRUE), out, "completed")

\* a new browser session: lines 24-31 run on an empty st.session_state; the
\* records table stays
NewSession ==
    /\ session_state' = SessionDefaults
    /\ analyze' = NoRun
    /\ UNCHANGED <<records, otherVars>>

NextSession ==
    \/ UploadPageReruns
    \/ AnalyzeWithoutImage
    \/ AnalyzeWithoutConsent
    \/ AnalyzeFails
    \/ AnalyzeCompletes
    \/ NewSession

SpecSession == InitSession /\ [][NextSession]_vars

(* ---------------------------------------------------------------------- *)
(* Reading a finished call                                                 *)
(* ---------------------------------------------------------------------- *)

Returned == pc = "returned"

\* the number a field of the current MetricSet converts to (0 when missing)
CurrNumber(f) == Float(Get(curr_metrics, f, 0)).val
PrevNumber(f) == Float(Get(prev_metrics.dict, f, 0)).val

\* a field that float() cannot convert: None or a non-numeric string
Malformed(v) == Float(v).raised

Statuses == {"Stable", "Monitor", "Concerning", "Urgent"}
Qualities == {"ok", "poor"}

(* ---------------------------------------------------------------------- *)
(* C1                                                                      *)
(* ---------------------------------------------------------------------- *)

\* a MetricSet with every None or non-numeric field replaced by 0.0
CoerceDict(d) == [k \in DOMAIN d |-> IF Malformed(d[k]) THEN Num(0) ELSE d[k]]
CoerceOptional(p) == [isNone |-> p.isNone, dict |-> CoerceDict(p.dict)]

\* C1: decide_status never raises on malformed MetricSet fields: a field that
\* is missing, None or a non-numeric string is treated as 0.0 and the
\* Decision of the MetricSets so coerced is returned.
C1_MalformedCoercedToZero ==
    pc # "call" =>
        /\ Returned
        /\ decision = decide_status(CoerceDict(curr_metrics),
                                    CoerceOptional(prev_metrics)).val

(* ---------------------------------------------------------------------- *)
(* C2                                                                      *)
(* ---------------------------------------------------------------------- *)

\* C2: decide_status is total: for every current and every previous
\* MetricSet (absent, empty or present) the call returns a Decision whose
\* status is one of Stable, Monitor, Concerning, Urgent and whose quality is
\* ok or poor.
C2_Total ==
    pc # "call" =>
        /\ Returned
        /\ decision.status \in Statuses
        /\ decision.quality \in Qualities

(* ---------------------------------------------------------------------- *)
(* C3                                                                      *)
(* ---------------------------------------------------------------------- *)

\* C3: whenever delta_pct < -5 and redness <= 120 the status returned is
\* Stable, whatever exudate_ratio is, exudate_ratio >= 0.08 included.
C3_ShrinkingAreaGivesStable ==
    (Returned /\ FracLT(decision.delta_pct, -5)
        /\ CurrNumber("redness") <= 120 * Milli)
    => decision.status = "Stable"

\* exudate_ratio = 0.09, redness = 50, delta_pct = -10 returned Stable
C3_Witness ==
    /\ Returned
    /\ CurrNumber("exudate_ratio") = 90
    /\ CurrNumber("redness") = 50 * Milli
    /\ decision.delta_pct = Frac(-10, 1)
    /\ decision.status = "Stable"

(* ---------------------------------------------------------------------- *)
(* C4                                                                      *)
(* ---------------------------------------------------------------------- *)

\* C4: whenever delta_pct > 15 the status returned is Urgent, for every
\* exudate_ratio, redness, blur_var and brightness; previous.area = 100 and
\* current.area = 120 give delta_pct exactly 20.0 and status Urgent.
C4_GrowthOver15IsUrgent ==
    Returned =>
        /\ FracGT(decision.delta_pct, 15) => decision.status = "Urgent"
        /\ (Truthy(prev_metrics) /\ PrevNumber("area") = 100 * Milli
                /\ CurrNumber("area") = 120 * Milli)
           => (decision.delta_pct = Frac(20, 1) /\ decision.status = "Urgent")

\* previous.area = 100, current.area = 120, no exudate and low redness
C4_Witness ==
    /\ Returned
    /\ Truthy(prev_metrics)
    /\ PrevNumber("area") = 100 * Milli
    /\ CurrNumber("area") = 120 * Milli
    /\ CurrNumber("exudate_ratio") = 0
    /\ CurrNumber("redness") = 50 * Milli
    /\ decision.status = "Urgent"

(* ---------------------------------------------------------------------- *)
(* C5                                                                      *)
(* ---------------------------------------------------------------------- *)

\* the running status is Urgent when the redness rule is reached: growth over
\* 15 percent, or high exudate not reset by a shrinking area
UrgentBeforeRedness ==
    \/ FracGT(decision.delta_pct, 15)
    \/ (CurrNumber("exudate_ratio") >= 80 /\ FracGE(decision.delta_pct, -5))

\* C5: the redness rule is evaluated last and can re-escalate: redness > 150
\* gives Urgent for every exudate_ratio and delta_pct (delta_pct < -5
\* included); 120 < redness <= 150 gives Concerning unless the running status
\* was already Urgent, and then Urgent.
C5_RednessEvaluatedLast ==
    Returned =>
        /\ CurrNumber("redness") > 150 * Milli => decision.status = "Urgent"
        /\ (CurrNumber("redness") > 120 * Milli
                /\ CurrNumber("redness") <= 150 * Milli)
           => decision.status =
                  IF UrgentBeforeRedness THEN "Urgent" ELSE "Concerning"

\* a shrinking area had set Stable and moderate redness re-escalated it
C5_Witness ==
    /\ Returned
    /\ FracLT(decision.delta_pct, -5)
    /\ CurrNumber("redness") > 120 * Milli
    /\ CurrNumber("redness") <= 150 * Milli
    /\ decision.status = "Concerning"

(* ---------------------------------------------------------------------- *)
(* C6                                                                      *)
(* ---------------------------------------------------------------------- *)

\* (current.area - max(1, previous.area)) / max(1, previous.area) * 100
SpecDelta(c, p) ==
    LET floor == IF p < Milli THEN Milli ELSE p
    IN  Frac(100 * (c - floor), floor)

AreasConvert ==
    /\ ~Malformed(Get(curr_metrics, "area", 0))
    /\ ~Malformed(Get(prev_metrics.dict, "area", 0))

\* C6, as stated: delta_pct is 0 whenever the previous MetricSet is absent
\* (None); otherwise, the empty previous MetricSet included, it is
\* (current.area - max(1, previous.area)) / max(1, previous.area) * 100.
C6_AsStated ==
    (Returned /\ AreasConvert) =>
        decision.delta_pct =
            IF prev_metrics.isNone THEN ZeroFrac
            ELSE SpecDelta(CurrNumber("area"), PrevNumber("area"))

\* C6, amended: delta_pct is 0 whenever the previous MetricSet is absent or
\* empty; otherwise it is (current.area - max(1, previous.area)) /
\* max(1, previous.area) * 100, a previous area below 1 (0 included) being
\* taken as 1, so that no previous area divides by zero.
C6_DeltaPct ==
    Returned =>
        /\ ~Truthy(prev_metrics) => decision.delta_pct = ZeroFrac
        /\ Truthy(prev_metrics) =>
               decision.delta_pct =
                   SpecDelta(CurrNumber("area"), PrevNumber("area"))

\* a previous area of 0 was taken as 1: current area 2 is a growth of 100 %
C6_Witness ==
    /\ Returned
    /\ Truthy(prev_metrics)
    /\ "area" \in DOMAIN prev_metrics.dict
    /\ PrevNumber("area") = 0
    /\ CurrNumber("area") = 2 * Milli
    /\ decision.delta_pct = Frac(100, 1)

(* ---------------------------------------------------------------------- *)
(* C7                                                                      *)
(* ---------------------------------------------------------------------- *)

C8_QualityFlag ==
    Returned =>
        decision.quality =
            IF CurrNumber("blur_var") < 60 * Milli
                \/ CurrNumber("brightness") < 30 * Milli
            THEN "poor" ELSE "ok"

\* a sharp but dark image, on an Urgent decision
C8_Witness ==
    /\ Returned
    /\ CurrNumber("blur_var") >= 60 * Milli
    /\ CurrNumber("brightness") < 30 * Milli
    /\ decision.quality = "poor"
    /\ decision.status = "Urgent"

(* ---------------------------------------------------------------------- *)
(* C9                                                                      *)
(* ---------------------------------------------------------------------- *)

\* the current MetricSet with other blur_var and brightness entries
WithQualityFields(d, b, br) ==
    MkDict([area |-> IF "area" \in DOMAIN d THEN d["area"] ELSE Absent,
            redness |-> IF "redness" \in DOMAIN d THEN d["redness"] ELSE Absent,
            exudate_ratio |-> IF "exudate_ratio" \in DOMAIN d
                              THEN d["exudate_ratio"] ELSE Absent,
            blur_var |-> b,
            brightness |-> br])

\* C9: quality never influences status: a second call whose arguments differ
\* from this one's only in blur_var and brightness returns the same status
\* and the same delta_pct.
C9_QualityDoesNotInfluenceStatus ==
    Returned =>
        \A b \in BlurValues, br \in BrightnessValues :
            LET other == decide_status(WithQualityFields(curr_metrics, b, br),
                                       prev_metrics)
            IN  ~other.raised =>
                    /\ other.val.status = decision.status
                    /\ other.val.delta_pct = decision.delta_pct

\* a poor image returned Urgent, and the same metrics from a good image
\* return a Decision of quality ok
C9_Witness ==
    /\ Returned
    /\ decision.quality = "poor"
    /\ decision.status = "Urgent"
    /\ LET other == decide_status(WithQualityFields(curr_metrics,
                                      Num(60 * Milli), Num(30 * Milli)),
                                  prev_metrics)
       IN  ~other.raised /\ other.val.quality = "ok"

(* ---------------------------------------------------------------------- *)
(* C10                                                                     *)
(* ---------------------------------------------------------------------- *)

\* C10: a current MetricSet whose metric fields are all missing gets status
\* Monitor, with or without a previous MetricSet.
C10_MissingFieldsGiveMonitor ==
    (Returned /\ DOMAIN curr_metrics = {}) => decision.status = "Monitor"

(* ---------------------------------------------------------------------- *)
(* C11                                                                     *)
(* ---------------------------------------------------------------------- *)

\* the conditions under which each rule group appends a tag, read off the
\* arguments of the call
QualityFired ==
    CurrNumber("blur_var") < 60 * Milli \/ CurrNumber("brightness") < 30 * Milli

ExudateFired == CurrNumber("exudate_ratio") >= 30

DeltaFired ==
    \/ FracGT(decision.delta_pct, 15)
    \/ (FracGT(decision.delta_pct, 5) /\ CurrNumber("exudate_ratio") < 80)
    \/ FracLE(decision.delta_pct, 5)

RednessFired ==
    \/ CurrNumber("redness") > 150 * Milli
    \/ (CurrNumber("redness") > 120 * Milli /\ ~UrgentBeforeRedness)

NoRuleFired == ~QualityFired /\ ~ExudateFired /\ ~DeltaFired /\ ~RednessFired

HeuristicDefault == <<Tag("heuristic_default", <<>>)>>

Redness160Neutral ==
    /\ Returned
    /\ CurrNumber("redness") = 160 * Milli
    /\ CurrNumber("exudate_ratio") = 0
    /\ decision.delta_pct = ZeroFrac
    /\ ~QualityFired

\* C12, as stated: given redness = 160 with all other metrics neutral
\* (exudate_ratio = 0, delta_pct = 0) the status is Urgent and the
\* explanation contains the redness tag only.
C12_AsStated ==
    Redness160Neutral =>
        /\ decision.status = "Urgent"
        /\ decision.explanation = <<Tag("redness", <<1600>>)>>

\* C12, amended: given redness = 160 with all other metrics neutral the
\* status is Urgent and the explanation is the informational tag
\* area_change_pct:0.0 followed by the redness tag redness:160.0, the only
\* tag of a rule that set the status.
C12_Redness160 ==
    Redness160Neutral =>
        /\ decision.status = "Urgent"
        /\ decision.explanation =
               <<Tag("area_change_pct", <<0>>), Tag("redness", <<1600>>)>>

C12_Witness ==
    /\ Redness160Neutral
    /\ prev_metrics.isNone
    /\ decision.status = "Urgent"
    /\ Len(decision.explanation) = 2

(* ---------------------------------------------------------------------- *)
(* C13                                                                     *)
(* ---------------------------------------------------------------------- *)

\* the place of a tag's rule in the evaluation order
TagRank(t) ==
    CASE t.name = "image_quality" -> 1
      [] t.name \in {"high_exudate", "moderate_exudate"} -> 2
      [] t.name \in {"area_increase_pct", "area_change_pct", "area_decrease_pct"} -> 3
      [] t.name = "redness" -> 4
      [] OTHER -> 0

\* the value the rule tested, as the tag's format prints it
TagCarriesValue(t) ==
    CASE t.name = "image_quality" ->
            t.vals = <<RoundHalfEven(CurrNumber("blur_var"), 100),
                       RoundHalfEven(CurrNumber("brightness"), 100)>>
      [] t.name \in {"high_exudate", "moderate_exudate"} ->
            t.vals = <<CurrNumber("exudate_ratio")>>
      [] t.name \in {"area_increase_pct", "area_change_pct", "area_decrease_pct"} ->
            t.vals = <<RoundHalfEven(10 * decision.delta_pct.num,
                                     decision.delta_pct.den)>>
      [] t.name = "redness" ->
            t.vals = <<RoundHalfEven(CurrNumber("redness"), 100)>>
      [] OTHER -> FALSE

\* C13: tags appear in rule-evaluation order: any image_quality tag precedes
\* any exudate tag, which precedes any area tag, which precedes any redness
\* tag; each tag carries the numeric value its rule tested (to the one or
\* three decimals printed).
C13_TagsInEvaluationOrder ==
    Returned =>
        /\ \A i, j \in 1..Len(decision.explanation) :
               i < j => TagRank(decision.explanation[i])
                            < TagRank(decision.explanation[j])
        /\ \A i \in 1..Len(decision.explanation) :
               TagCarriesValue(decision.explanation[i])

\* all four groups fired
C13_Witness ==
    /\ Returned
    /\ Len(decision.explanation) = 4
    /\ decision.explanation[1].name = "image_quality"
    /\ decision.explanation[2].name = "moderate_exudate"
    /\ decision.explanation[3].name = "area_decrease_pct"
    /\ decision.explanation[4].name = "redness"

(* ---------------------------------------------------------------------- *)
(* analyze_image: reading a call                                           *)
(* ---------------------------------------------------------------------- *)

ImageReturned == frame.pc = "returned"
ImageRaised == frame.pc = "raised"

\* the call was given an image larger than target_size
Oversized == Max(frame.pil_img.h, frame.pil_img.w) > frame.target_size

MetricKeys ==
    {"area", "area_pct", "redness", "exudate_ratio", "brightness",
     "blur_var", "mask"}

SetPixels(mask) == {i \in 1..Len(mask) : mask[i] > 0}

\* the abnormal-tissue condition in exact arithmetic:
\* R > 1.1 G, R > 1.1 B, R > 70 and mean(R, G, B) > 30
AbnormalTissue(p) ==
    /\ 10 * p[1] > 11 * p[2]
    /\ 10 * p[1] > 11 * p[3]
    /\ p[1] > 70
    /\ p[1] + p[2] + p[3] > 3 * 30

\* the mean red value of an image
MeanRed(img) == Frac(Sum([i \in 1..Len(img.px) |-> img.px[i][1]], 1, Len(img.px)),
                     Len(img.px))

(* ---------------------------------------------------------------------- *)
(* C14: analyze_image returns a complete MetricSet without raising for     *)
(* every RGB image of width >= 1 and height >= 1.                          *)
(* ---------------------------------------------------------------------- *)

\* C14: a call on an image with width >= 1 and height >= 1 never raises,
\* and what it returns has the seven keys and a mask of the processed size
C14_ReturnsForEveryImage ==
    (frame.pc # "idle" /\ frame.pil_img.w >= 1 /\ frame.pil_img.h >= 1) =>
        /\ ~ImageRaised
        /\ ImageReturned =>
              /\ DOMAIN frame.metrics = MetricKeys
              /\ Len(frame.metrics.mask) = frame.img.w * frame.img.h

(* ---------------------------------------------------------------------- *)
(* C15: mask population equals area; area_pct = area / (processed width *  *)
(* processed height) * 100; 0 <= area <= total; 0 <= area_pct <= 100.      *)
(* ---------------------------------------------------------------------- *)

\* C15: in every returned MetricSet the set pixels of mask number area,
\* area_pct is area / (processed width * processed height) * 100, area is
\* between 0 and the processed pixel count and area_pct between 0 and 100
C15_AreaMatchesMask ==
    ImageReturned =>
        LET m == frame.metrics
            total == frame.img.w * frame.img.h
        IN  /\ Cardinality(SetPixels(m.mask)) = m.area
            /\ m.area_pct = Frac(m.area * 100, total)
            /\ 0 <= m.area /\ m.area <= total
            /\ FracGE(m.area_pct, 0) /\ FracLE(m.area_pct, 100)

\* a returned call on a downscaled image with a non-empty mask
C15_Witness ==
    /\ ImageReturned
    /\ Oversized
    /\ frame.img.w * frame.img.h < frame.pil_img.w * frame.pil_img.h
    /\ frame.metrics.area > 0

(* ---------------------------------------------------------------------- *)
(* C16: no pixel satisfying the abnormal-tissue condition gives area 0, an *)
(* all-zero mask and redness = whole-image mean red; with area > 0 redness *)
(* is the mean red over the pixels of the final mask.                      *)
(* ---------------------------------------------------------------------- *)

\* the redness the claim describes, read on image img
RednessAsClaimed(img) ==
    LET m == frame.metrics
    IN  /\ (\A i \in 1..Len(img.px) : ~AbnormalTissue(img.px[i])) =>
               /\ m.area = 0
               /\ SetPixels(m.mask) = {}
               /\ m.redness = MeanRed(img)
        /\ m.area > 0 =>
               m.redness =
                   Frac(Sum([i \in 1..Len(frame.img.px) |->
                                IF i \in SetPixels(m.mask)
                                THEN frame.img.px[i][1] ELSE 0],
                            1, Len(frame.img.px)),
                        Cardinality(SetPixels(m.mask)))

\* C16 as stated: the condition and the whole-image mean are those of the
\* image passed to analyze_image
C16_AsStated == ImageReturned => RednessAsClaimed(frame.pil_img)

\* C16 amended: the condition and the whole-image mean are those of the
\* processed (downscaled) image; with area > 0 redness is the mean red
\* value of the processed pixels set in the final mask
C16_Redness == ImageReturned => RednessAsClaimed(frame.img)

\* a returned call with a non-empty final mask that leaves out some pixel
C16_Witness ==
    /\ ImageReturned
    /\ frame.metrics.area > 0
    /\ frame.metrics.area < Len(frame.metrics.mask)
    /\ frame.metrics.redness # MeanRed(frame.img)

(* ---------------------------------------------------------------------- *)
(* C17: a pixel is set in the raw mask exactly when R > 1.1 G, R > 1.1 B,  *)
(* R > 70 and mean(R, G, B) > 30; truncating 1.1 G and 1.1 B changes       *)
(* nothing.                                                                *)
(* ---------------------------------------------------------------------- *)

\* C17: once line 59 has run, every pixel of the raw mask is set exactly
\* when the pixel satisfies the condition in exact arithmetic
C17_RawMaskCondition ==
    frame.pc = "masked" =>
        \A i \in 1..Len(frame.red_mask) :
            (frame.red_mask[i] > 0) <=> AbnormalTissue(frame.img.px[i])

\* a raw mask computed for a pixel where the truncation is not exact:
\* 1.1 * 65 = 71.5 is truncated to 71 and R = 72 exceeds both
C17_Witness ==
    /\ frame.pc = "masked"
    /\ frame.img.px[1] = <<72, 65, 0>>
    /\ frame.red_mask[1] > 0

(* ---------------------------------------------------------------------- *)
(* C18: a larger dimension above target_size gives processed dimensions    *)
(* (int(w * scale), int(h * scale)), both between 1 and target_size, with  *)
(* the aspect ratio preserved; otherwise the input dimensions.             *)
(* ---------------------------------------------------------------------- *)

\* C18: once the resize has been decided, an oversized image has processed
\* dimensions between 1 and target_size, each within one pixel of the
\* proportional size, and the array that is analysed has these dimensions;
\* any other image keeps its dimensions
C18_ProcessedDimensions ==
    frame.pc \notin {"idle", "start"} =>
        LET w == frame.pil_img.w
            h == frame.pil_img.h
            size == ProcessedSize(w, h, frame.target_size)
        IN  /\ Oversized =>
                /\ size.w >= 1 /\ size.w <= frame.target_size
                /\ size.h >= 1 /\ size.h <= frame.target_size
                /\ Abs(size.w * h - size.h * w) < Max(h, w)
                /\ frame.img.w = size.w /\ frame.img.h = size.h
            /\ ~Oversized => frame.img.w = w /\ frame.img.h = h

(* ---------------------------------------------------------------------- *)
(* C19: the final mask is the raw mask after one opening and one closing   *)
(* with the 7x7 ellipse; a speckle too small to contain the ellipse is     *)
(* removed and a hole smaller than the ellipse in a large region is        *)
(* filled.                                                                 *)
(* ---------------------------------------------------------------------- *)

Opening(mask, w, h) == Dilate(Erode(mask, w, h), w, h)
Closing(mask, w, h) == Erode(Dilate(mask, w, h), w, h)

KernelSize == 2 * KernelRadius + 1

\* the entries of the rectangle r that lie in a w x h image, and of the
\* rectangle grown by d on every side
RectPixels(r, w, h) ==
    {i \in 1..(w * h) : InRect(XOf(i, w), YOf(i, w), r)}

Grown(r, d) == Rect(r.x - d, r.y - d, r.w + 2 * d, r.h + 2 * d)

\* the rectangles inside a w x h image that cannot contain the ellipse
SmallRects(w, h) ==
    {Rect(x, y, s, t) :
        x \in 0..(w - 1), y \in 0..(h - 1),
        s \in 1..(KernelSize - 1), t \in 1..(KernelSize - 1)}

InImage(r, w, h) ==
    r.x >= 0 /\ r.y >= 0 /\ r.x + r.w <= w /\ r.y + r.h <= h

\* r is a speckle of the mask: set throughout and with no other set pixel
\* within the reach of the ellipse
IsSpeckle(mask, r, w, h) ==
    /\ InImage(r, w, h)
    /\ \A i \in RectPixels(r, w, h) : mask[i] > 0
    /\ \A i \in RectPixels(Grown(r, KernelRadius), w, h) \ RectPixels(r, w, h) :
          mask[i] = 0

\* r is a hole of the mask inside a large region: unset throughout, and
\* every pixel within the size of the ellipse around it is in the image
\* and set
IsHole(mask, r, w, h) ==
    /\ InImage(Grown(r, KernelSize), w, h)
    /\ \A i \in RectPixels(r, w, h) : mask[i] = 0
    /\ \A i \in RectPixels(Grown(r, KernelSize), w, h) \ RectPixels(r, w, h) :
          mask[i] > 0

\* C19: the returned mask is the closing of the opening of the raw mask;
\* every speckle of the raw mask is absent from it and every hole of the raw
\* mask is filled in it
C19_OpenThenClose ==
    ImageReturned =>
        LET w == frame.img.w
            h == frame.img.h
            raw == RawMask(frame.img)
            final == frame.metrics.mask
        IN  /\ final = Closing(Opening(raw, w, h), w, h)
            /\ \A r \in SmallRects(w, h) :
                  /\ IsSpeckle(raw, r, w, h) =>
                        \A i \in RectPixels(r, w, h) : final[i] = 0
                  /\ IsHole(raw, r, w, h) =>
                        \A i \in RectPixels(r, w, h) : final[i] > 0

(* ---------------------------------------------------------------------- *)
(* C20: analyze_image and decide_status share no mutable state: in any     *)
(* interleaving and after any earlier calls, the result of a call depends  *)
(* only on its own arguments.                                              *)
(* ---------------------------------------------------------------------- *)

\* what a finished call of analyze_image handed back
ImageOutcome(f) ==
    [pc |-> f.pc, metrics |-> f.metrics, exception |-> f.exception]

Classifier == analyze.classified

Completed == analyze.outcome = "completed"

\* the rows stored before the last run of the handler
PriorRows ==
    IF Completed THEN SubSeq(records, 1, analyze.rec_id - 1) ELSE records

\* the places in the session's timeline of the entries of earlier runs
PriorEntries ==
    {i \in 1..Len(session_state.timeline) :
        ~(Completed /\ session_state.timeline[i].id = analyze.rec_id)}

\* the place of the entry with the largest id, the last one stored
LatestOf(places) ==
    CHOOSE i \in places :
        \A j \in places :
            session_state.timeline[j].id <= session_state.timeline[i].id

\* the patient name stored with row id
NameOf(id) == records[id].context_json.json.name

(* ---------------------------------------------------------------------- *)
(* C21 as stated: whenever the Analyze action runs the classifier, the     *)
(* previous MetricSet passed to decide_status is the MetricSet of the most *)
(* recent prior analysis, and None is passed only when no prior analysis   *)
(* exists.  Prior analyses are the rows stored before the run.             *)
(* ---------------------------------------------------------------------- *)
C21_AsStated ==
    Classifier =>
        IF PriorRows = <<>> THEN analyze.prev.isNone
        ELSE analyze.prev = SomeDict(PriorRows[Len(PriorRows)].metrics_json.json)

(* ---------------------------------------------------------------------- *)
(* What the handler passes instead: the MetricSet at the head of the       *)
(* session's timeline, that of the last analysis completed in the same     *)
(* browser session, and None when none has completed in that session,      *)
(* whatever the records table holds.                                       *)
(* ---------------------------------------------------------------------- *)
C21_PrevIsLatestOfSession ==
    Classifier =>
        IF PriorEntries = {} THEN analyze.prev.isNone
        ELSE analyze.prev =
                 SomeDict(session_state.timeline[LatestOf(PriorEntries)].metrics)

\* the classifier ran after two analyses with different MetricSets
C21_Witness ==
    /\ Classifier
    /\ Cardinality(PriorEntries) = 2
    /\ \E i \in PriorEntries, j \in PriorEntries :
           session_state.timeline[i].metrics # session_state.timeline[j].metrics
    /\ ~analyze.prev.isNone

(* ---------------------------------------------------------------------- *)
(* C22: the previous MetricSet supplied to decide_status was computed for  *)
(* the same subject as the current one: after any sequence of Analyze      *)
(* actions with varying patient names, delta_pct is never computed against *)
(* another patient's area.                                                 *)
(* ---------------------------------------------------------------------- *)
C22_SameSubject ==
    (Completed /\ ~analyze.prev.isNone) =>
        NameOf(session_state.timeline[2].id) = NameOf(session_state.timeline[1].id)

\* the LLM environments of the sessions
SessionEnvs == {out.llm : out \in Outsides}

\* the run of the handler pressed now for patient n, the LLM side being e and
\* the disk and the database writable
RunWith(n, e) ==
    Analyze(session_state, records, Widgets(session_state.uploaded, n, TRUE),
            Outside(e, TRUE, TRUE))

\* the decision stored in the row a run added
StoredDecision(a) == a.records[a.analyze.rec_id].decision_json.json

(* ---------------------------------------------------------------------- *)
(* C23: rationale generation never affects the Decision: whether the LLM   *)
(* call succeeds, fails, raises, or no API key is configured, the status,  *)
(* delta_pct, quality and explanation stored in the record are the same,   *)
(* and the record is still persisted.  Two runs of the handler from the    *)
(* same state that differ in the LLM side only are compared.               *)
(* ---------------------------------------------------------------------- *)
C23_RationaleNeverAffectsDecision ==
    \A n \in PatientNames, e1 \in SessionEnvs, e2 \in SessionEnvs :
        RunWith(n, e1).analyze.outcome = "completed" =>
            /\ RunWith(n, e2).analyze.outcome = "completed"
            /\ StoredDecision(RunWith(n, e2)) = StoredDecision(RunWith(n, e1))

(* ---------------------------------------------------------------------- *)
(* Reading the states of SpecRationale                                     *)
(* ---------------------------------------------------------------------- *)

\* the lines of a text: its pieces between "\n"
RECURSIVE Lines(_, _)
Lines(text, line) ==
    IF text = <<>> THEN <<line>>
    ELSE IF Head(text) = "\n" THEN <<line>> \o Lines(Tail(text), <<>>)
    ELSE Lines(Tail(text), Append(line, Head(text)))

\* the status the call was given, as printed
GivenStatus ==
    IF llm_call.decision.isNone \/ "status" \notin DOMAIN llm_call.decision.dict
    THEN Chars("Unknown")
    ELSE IF llm_call.decision.dict["status"].kind = "str"
    THEN llm_call.decision.dict["status"].str
    ELSE Chars("None")

\* no API key is configured, or the request raises
KeyMissingOrCallFails ==
    ~llm_call.env.api_key \/ llm_call.env.answer.raised

(* ---------------------------------------------------------------------- *)
(* C24: generate_llm_rationale returns a fallback summary based on the     *)
(* decision whenever the API key is missing or the call fails, without     *)
(* raising: its first line is "Status: <status>.", followed by the         *)
(* urgent-review advice when the status is Urgent and by the               *)
(* continue-local-care advice for every other status (Stable, Monitor,     *)
(* Concerning, Unknown).                                                   *)
(* ---------------------------------------------------------------------- *)
C24_FallbackWithoutRaising ==
    (llm_call.pc = "returned" /\ KeyMissingOrCallFails) =>
        /\ ~llm_call.result.raised
        /\ llm_call.result.val.kind = "str"
        /\ LET lines == Lines(llm_call.result.val.text, <<>>)
           IN  /\ Head(lines) = Chars("Status: ") \o GivenStatus \o <<".">>
               /\ Tail(lines) = IF GivenStatus = Chars("Urgent")
                                THEN UrgentAdvice ELSE LocalCareAdvice

\* the request raised with a key configured and the status is Urgent
C24_Witness ==
    /\ llm_call.pc = "returned"
    /\ llm_call.env.api_key
    /\ llm_call.env.answer.raised
    /\ GivenStatus = Chars("Urgent")
    /\ Lines(llm_call.result.val.text, <<>>)[2] = UrgentAdvice[1]

(* ---------------------------------------------------------------------- *)
(* Reading the states of Spec: severity levels and tag groups              *)
(* ---------------------------------------------------------------------- *)

Severity(status) ==
    CASE status = "Stable" -> 0
      [] status = "Monitor" -> 1
      [] status = "Concerning" -> 2
      [] status = "Urgent" -> 3

\* the level each rule asks for, Monitor when it asks for none
ExudateLevel ==
    IF CurrNumber("exudate_ratio") >= 80 THEN "Urgent"
    ELSE IF CurrNumber("exudate_ratio") >= 30 THEN "Concerning"
    ELSE "Monitor"

DeltaLevel ==
    IF FracGT(decision.delta_pct, 15) THEN "Urgent"
    ELSE IF FracGT(decision.delta_pct, 5) THEN "Concerning"
    ELSE "Monitor"

RednessLevel ==
    IF CurrNumber("redness") > 150 * Milli THEN "Urgent"
    ELSE IF CurrNumber("redness") > 120 * Milli THEN "Concerning"
    ELSE "Monitor"

\* what a reducer taking the most severe level returns
MaxSeverity ==
    CHOOSE l \in {"Monitor", ExudateLevel, DeltaLevel, RednessLevel} :
        \A m \in {"Monitor", ExudateLevel, DeltaLevel, RednessLevel} :
            Severity(m) <= Severity(l)

(* ---------------------------------------------------------------------- *)
(* C25: for every input with delta_pct >= -5, the final status equals the  *)
(* maximum severity (Monitor < Concerning < Urgent) among the initial      *)
(* Monitor, the exudate level, the delta level and the redness level; the  *)
(* rule chain differs from a severity-max reducer only on inputs with      *)
(* delta_pct < -5.                                                         *)
(* ---------------------------------------------------------------------- *)
C25_SeverityMax ==
    Returned =>
        /\ FracGE(decision.delta_pct, -5) => decision.status = MaxSeverity
        /\ decision.status # MaxSeverity => FracLT(decision.delta_pct, -5)

\* a later, weaker rule fires after an Urgent one, and the chain differs
\* from the reducer on some shrinking area
C25_Witness ==
    /\ Returned
    /\ FracGE(decision.delta_pct, -5)
    /\ ExudateLevel = "Urgent"
    /\ DeltaLevel = "Concerning"
    /\ RednessLevel = "Concerning"
    /\ decision.status = "Urgent"

\* the previous MetricSet is a dict
PrevGiven == ~prev_metrics.isNone

\* the previous MetricSet is a dict with at least one key
PrevNonEmpty == ~prev_metrics.isNone /\ DOMAIN prev_metrics.dict # {}

MinusHundred == Frac(-100, 1)

(* ---------------------------------------------------------------------- *)
(* C26 as stated: when a previous MetricSet is present with area 0 (or     *)
(* missing) and the current area is also 0, delta_pct is -100 rather than  *)
(* 0, so with redness <= 120 the final status is Stable; delta_pct is 0    *)
(* for identical current and previous areas only when that area is >= 1,   *)
(* and delta_pct >= -100 for every non-negative current area.              *)
(* ---------------------------------------------------------------------- *)
C26_AsStated ==
    Returned =>
        /\ (PrevGiven /\ PrevNumber("area") = 0 /\ CurrNumber("area") = 0) =>
               /\ decision.delta_pct = MinusHundred
               /\ CurrNumber("redness") <= 120 * Milli => decision.status = "Stable"
        /\ (PrevGiven /\ PrevNumber("area") = CurrNumber("area")) =>
               (decision.delta_pct = ZeroFrac <=> CurrNumber("area") >= Milli)
        /\ CurrNumber("area") >= 0 => FracGE(decision.delta_pct, -100)

(* ---------------------------------------------------------------------- *)
(* C26 amended: when a previous MetricSet is present and not empty, with   *)
(* area 0 (or missing), and the current area is also 0, delta_pct is -100  *)
(* rather than 0, so with redness <= 120 the final status is Stable; with  *)
(* a previous MetricSet that is not empty, delta_pct is 0 for identical    *)
(* current and previous areas only when that area is >= 1; and delta_pct   *)
(* >= -100 for every non-negative current area.                            *)
(* ---------------------------------------------------------------------- *)
C26_ZeroAreas ==
    Returned =>
        /\ (PrevNonEmpty /\ PrevNumber("area") = 0 /\ CurrNumber("area") = 0) =>
               /\ decision.delta_pct = MinusHundred
               /\ CurrNumber("redness") <= 120 * Milli => decision.status = "Stable"
        /\ (PrevNonEmpty /\ PrevNumber("area") = CurrNumber("area")) =>
               (decision.delta_pct = ZeroFrac <=> CurrNumber("area") >= Milli)
        /\ CurrNumber("area") >= 0 => FracGE(decision.delta_pct, -100)

\* both areas are 0, the previous MetricSet has another key, and the status
\* is Stable
C26_Witness ==
    /\ Returned
    /\ PrevNonEmpty
    /\ "area" \notin DOMAIN prev_metrics.dict
    /\ CurrNumber("area") = 0
    /\ CurrNumber("redness") <= 120 * Milli
    /\ decision.delta_pct = MinusHundred
    /\ decision.status = "Stable"

\* the tags of each rule group
QualityTags == {"image_quality"}
ExudateTags == {"high_exudate", "moderate_exudate"}
AreaTags == {"area_increase_pct", "area_change_pct", "area_decrease_pct"}
RednessTags == {"redness"}

\* how many tags of the explanation belong to a group
TagCount(group) ==
    Cardinality({i \in 1..Len(decision.explanation) :
                    decision.explanation[i].name \in group})

\* 5 < delta_pct <= 15 while the exudate rule has set Urgent
UrgentBeforeModerateGrowth ==
    /\ FracGT(decision.delta_pct, 5)
    /\ FracLE(decision.delta_pct, 15)
    /\ CurrNumber("exudate_ratio") >= 80

(* ---------------------------------------------------------------------- *)
(* C27: for numeric inputs the explanation holds at most one tag per rule  *)
(* group (image_quality, exudate, area, redness), hence at most four tags; *)
(* exactly one area_* tag is present except when 5 < delta_pct <= 15 while *)
(* the running status is already Urgent from the exudate rule, in which    *)
(* case no area tag is appended; consequently at least one tag is always   *)
(* present and "heuristic_default" is never returned.                      *)
(* ---------------------------------------------------------------------- *)
C27_TagsPerGroup ==
    Returned =>
        /\ TagCount(QualityTags) <= 1
        /\ TagCount(ExudateTags) <= 1
        /\ TagCount(RednessTags) <= 1
        /\ TagCount(AreaTags) = IF UrgentBeforeModerateGrowth THEN 0 ELSE 1
        /\ TagCount(QualityTags \cup ExudateTags \cup AreaTags \cup RednessTags)
               = Len(decision.explanation)
        /\ Len(decision.explanation) \in 1..4

\* the one case without an area tag, and a call with all four tags
C27_Witness ==
    /\ Returned
    /\ UrgentBeforeModerateGrowth
    /\ TagCount(AreaTags) = 0
    /\ TagCount(ExudateTags) = 1

\* the step starts a new browser session
SessionStarts == analyze' = NoRun /\ session_state' = SessionDefaults

\* the handler ended without storing a record: no image, no consent, or an
\* exception at some step
EndsWithoutRecord == analyze'.outcome \in {"no_image", "no_consent", "failed"}

\* the step leaves the timeline and latest_record as they are
SessionRecordsUnchanged ==
    /\ session_state'.timeline = session_state.timeline
    /\ session_state'.latest_record = session_state.latest_record

\* the step inserts exactly one row and prepends exactly one entry with the
\* row's id, which latest_record carries too
OneRowOneEntry ==
    /\ Len(records') = Len(records) + 1
    /\ SubSeq(records', 1, Len(records)) = records
    /\ Len(session_state'.timeline) = Len(session_state.timeline) + 1
    /\ Tail(session_state'.timeline) = session_state.timeline
    /\ session_state'.timeline[1].id = records'[Len(records')].id
    /\ ~session_state'.latest_record.isNone
    /\ session_state'.latest_record.val.id = records'[Len(records')].id

\* the timeline is newest-first and its head is the latest record
NewestFirst ==
    /\ \A i \in 1..Len(session_state.timeline), j \in 1..Len(session_state.timeline) :
           i < j => session_state.timeline[i].id > session_state.timeline[j].id
    /\ session_state.timeline = <<>> <=> session_state.latest_record.isNone
    /\ session_state.timeline # <<>> =>
           session_state.timeline[1].id = session_state.latest_record.val.id

(* ---------------------------------------------------------------------- *)
(* C28: after any sequence of Analyze actions in one session, an Analyze   *)
(* with no uploaded image or without consent, or one that raises at any    *)
(* step, leaves the timeline and latest_record unchanged; each successful  *)
(* Analyze inserts exactly one database row and prepends exactly one       *)
(* timeline entry carrying that row's id, so the timeline is newest-first, *)
(* its length grows by one with each successful analysis and by nothing    *)
(* else, and timeline[0].id equals latest_record.id.                       *)
(* ---------------------------------------------------------------------- *)
C28_TimelineMatchesRecords ==
    /\ []NewestFirst
    /\ [][~SessionStarts =>
            /\ EndsWithoutRecord => (SessionRecordsUnchanged /\ records' = records)
            /\ IF analyze'.outcome = "completed" /\ analyze' # analyze
               THEN OneRowOneEntry
               ELSE SessionRecordsUnchanged /\ records' = records]_vars

\* two analyses completed in the session
C28_Witness ==
    /\ Completed
    /\ Len(session_state.timeline) = 2
    /\ session_state.timeline[1].id = 2
    /\ session_state.latest_record.val.id = 2
    /\ Len(records) = 2

====
